---- MODULE Spec2Model ----
(***************************************************************************)
(* Model of dev/generate-tests.py: the construction of a Specification     *)
(* (Specification.__init__ and gettests), the sparse-to-dense              *)
(* reconstruction of output accumulators (dicttolist) and the validators   *)
(* (typevalidates, validateoverflow) that decide which combinations are    *)
(* retained as TestCases; the numbering of the test functions that         *)
(* genspectests writes; and a second construction from the same inputs.    *)
(*                                                                         *)
(* Python values are records of one shape, [tag, n, items]:                *)
(*   int    [tag |-> "int",   n |-> the number,  items |-> <<>>]           *)
(*   bool   [tag |-> "bool",  n |-> 0 or 1,      items |-> <<>>]           *)
(*   float  [tag |-> "float", n |-> the number (whole floats only)]        *)
(*   list   [tag |-> "list",  n |-> 0, items |-> the elements]             *)
(*   dict   [tag |-> "dict",  n |-> 0, items |-> the entries, in insertion *)
(*           order, each [tag |-> "kv", n |-> key, items |-> <<value>>]]   *)
(* An OrderedDict name -> value is a sequence of [name, val] records in    *)
(* insertion order.  Strings are TLA+ strings.                             *)
(***************************************************************************)
EXTENDS Integers, Sequences, FiniteSets, TLC

VARIABLES
    spec,       \* the kernel: name, args, automatic-tests flag, reference callable
    testdata,   \* the fixture corpus (kernel-test-data.json, "tests")
    pc,         \* position in Specification.__init__ / gettests
    exc,        \* the exception that ended construction ("" when none)
    combos,     \* the origtemp of every element of product(*combinations), in order
    refs,       \* for every value in combos, which object it is
    idx,        \* number of combinations taken from the product so far
    origtemp,   \* the binding of the current combination, as built from the fixtures
    temp,       \* its deep copy, as the reference callable left it
    outcome,    \* how the call of the current combination ended
    log,        \* per processed combination: how the call ended, whether it was retained
    allvals,    \* the TestCases retained so far
    tests,      \* self.tests, once construction has assigned it
    testfile,   \* the test functions genspectests has written for the kernel
    cpufile,    \* the test functions gencpukerneltests has written for it
    cudafile,   \* the test functions gencudakerneltests has written for it
    run,        \* 1 for the first construction of the Specification, 2 for a second
    first,      \* self.tests of the first construction, once a second has begun
    fixture,    \* unit_test_map[kernel]: the unit-test records and the status
    cpuunit,    \* the file gencpuunittests has written for the kernel
    cudaunit,   \* the file gencudaunittests has written for the kernel
    dirs,       \* the output directories: whether each exists, and its files
    written,    \* the files this run of main has written, as (dir, name)
    before,     \* the output directories as the run found them
    cache,      \* to_rdataframe.cache
    submitted,  \* the texts handed to ROOT.gInterpreter.ProcessLine, in order
    calls       \* the calls of AwkwardArrayDSGenerator.generate so far

\* The variables of the unit-test emitters, of the run of main over the
\* output directories, and of the RDataFrame generator.
unitvars == <<fixture, cpuunit, cudaunit>>
mainvars == <<dirs, written, before>>
rdfvars == <<cache, submitted, calls>>
others == <<unitvars, mainvars, rdfvars>>

\* The variables of Specification.gettests and the kernel-test emitters.
gentestvars == <<testdata, combos, refs, idx, origtemp, temp, outcome, log, allvals, tests,
                 testfile, cpufile, cudafile, run, first>>

vars == <<spec, testdata, pc, exc, combos, refs, idx, origtemp, temp, outcome, log, allvals, tests,
          testfile, cpufile, cudafile, run, first, others>>

\* ---------------------------------------------------------------- bounds

\* Largest index the reference callable writes into an accumulator.
MaxKey == 2
\* Largest number of distinct indices the callable writes into one accumulator.
MaxWrites == 2
\* Largest number of instances a role group has in the fixture corpus.
MaxInst == 2
\* Largest length of the generic fixture "num" when it is a sequence.
MaxNum == 3

\* ------------------------------------------------------- Python values

IntV(n) == [tag |-> "int", n |-> n, items |-> <<>>]
BoolV(b) == [tag |-> "bool", n |-> IF b THEN 1 ELSE 0, items |-> <<>>]
FloatV(n) == [tag |-> "float", n |-> n, items |-> <<>>]
ListV(s) == [tag |-> "list", n |-> 0, items |-> s]
KV(k, v) == [tag |-> "kv", n |-> k, items |-> <<v>>]
DictV(kvs) == [tag |-> "dict", n |-> 0, items |-> kvs]

IsScalar(v) == v.tag \in {"int", "bool", "float"}

\* len(v) of a list or a dict; the other values have no len() (TypeError).
PyLen(v) == Len(v.items)

\* The keys of a dict.
Keys(d) == {d.items[i].n : i \in 1..Len(d.items)}

\* d[k] of a dict that has the key k.
DictGet(d, k) == d.items[CHOOSE i \in 1..Len(d.items) : d.items[i].n = k].items[1]

\* OrderedDict helpers: lookup and the sequence of keys.
Has(od, name) == \E i \in 1..Len(od) : od[i].name = name
Get(od, name) == od[CHOOSE i \in 1..Len(od) : od[i].name = name].val
Names(od) == [i \in 1..Len(od) |-> od[i].name]

\* sub in s, for strings.
Contains(s, sub) ==
    \E i \in 1..(Len(s) - Len(sub) + 1) : SubSeq(s, i, i + Len(sub) - 1) = sub

\* s.find(c): the 0-based index of the first occurrence, -1 when there is none.
Find(s, c) ==
    IF Contains(s, c)
    THEN (CHOOSE i \in 1..Len(s) :
            /\ SubSeq(s, i, i + Len(c) - 1) = c
            /\ \A j \in 1..(i - 1) : SubSeq(s, j, j + Len(c) - 1) # c) - 1
    ELSE 0 - 1

\* s[:k] and s[k:] with Python's meaning of a negative k.
SliceTo(s, k) == IF k >= 0 THEN SubSeq(s, 1, k) ELSE SubSeq(s, 1, Len(s) + k)
SliceFrom(s, k) == IF k >= 0 THEN SubSeq(s, k + 1, Len(s)) ELSE SubSeq(s, Len(s) + k + 1, Len(s))

\* sorted(S) of a finite set of integers.
RECURSIVE Sorted(_)
Sorted(S) ==
    IF S = {} THEN <<>>
    ELSE LET m == CHOOSE x \in S : \A y \in S : x <= y
         IN <<m>> \o Sorted(S \ {m})

\* ------------------------------------------------- Value Typing Utility

\* gettypeval: the placeholder of a type; ok = FALSE is the ValueError
\* "Unknown type encountered".
gettypeval(typename) ==
    IF Contains(typename, "int") THEN [ok |-> TRUE, val |-> IntV(123)]
    ELSE IF Contains(typename, "bool") THEN [ok |-> TRUE, val |-> BoolV(TRUE)]
    ELSE IF Contains(typename, "double") \/ Contains(typename, "float")
         THEN [ok |-> TRUE, val |-> FloatV(123)]
    ELSE [ok |-> FALSE, val |-> IntV(0)]

\* isinstance(v, type(typeval)): bool is a subclass of int.
IsInstance(v, typeval) ==
    CASE typeval.tag = "int" -> v.tag \in {"int", "bool"}
      [] typeval.tag = "bool" -> v.tag = "bool"
      [] typeval.tag = "float" -> v.tag = "float"
      [] OTHER -> FALSE

\* ------------------------------------------------------ Oracle Executor

\* dicttolist, lines 88-90: while num != count: count += 1; append typeval.
\* Only entered with num > count (see dictloop).
RECURSIVE fillgap(_, _, _, _)
fillgap(vallist, count, num, typeval) ==
    IF num = count THEN [vallist |-> vallist, count |-> count]
    ELSE fillgap(Append(vallist, typeval), count + 1, num, typeval)

\* dictloop without lines 87-90: the values in key order, no gap filled.
dictloopNoFill(outputdict, nums, vallist, count, typeval) ==
    [hang |-> FALSE, vallist |-> [i \in 1..Len(nums) |-> DictGet(outputdict, nums[i])]]

\* dicttolist, lines 84-92: the loop over sorted(outputdict).  With num < count
\* the inner while never reaches num = count (Python integers do not wrap):
\* hang = TRUE.
RECURSIVE dictloop(_, _, _, _, _)
dictloop(outputdict, nums, vallist, count, typeval) ==
    IF nums = <<>> THEN [hang |-> FALSE, vallist |-> vallist]
    ELSE LET num == Head(nums) IN
         IF num = count
         THEN dictloop(outputdict, Tail(nums),
                       Append(vallist, DictGet(outputdict, num)), count + 1, typeval)
         ELSE IF num < count
         THEN [hang |-> TRUE, vallist |-> vallist]
         ELSE LET g == fillgap(vallist, count, num, typeval)
              IN dictloop(outputdict, Tail(nums),
                          Append(g.vallist, DictGet(outputdict, num)),
                          g.count + 1, typeval)

\* dicttolist: kind is "ok" (val is the dense list), "ValueError" (gettypeval
\* raised) or "hang".
densified(r) == [kind |-> IF r.hang THEN "hang" ELSE "ok", val |-> ListV(r.vallist)]

\* dicttolist with count starting at -1.
dicttolistFromMinusOne(outputdict, typename) ==
    IF ~gettypeval(typename).ok THEN [kind |-> "ValueError", val |-> ListV(<<>>)]
    ELSE densified(dictloop(outputdict, Sorted(Keys(outputdict)), <<>>, 0 - 1,
                            gettypeval(typename).val))

dicttolist(outputdict, typename) ==
    IF ~gettypeval(typename).ok THEN [kind |-> "ValueError", val |-> ListV(<<>>)]
    ELSE densified(dictloop(outputdict, Sorted(Keys(outputdict)), <<>>, 0,
                            gettypeval(typename).val))

\* getdummyvalue with one element too many.
getdummyvalueOneMore(typename, length) ==
    IF ~gettypeval(typename).ok THEN [kind |-> "ValueError", val |-> ListV(<<>>)]
    ELSE [kind |-> "ok", val |-> ListV([i \in 1..(length + 1) |-> gettypeval(typename).val])]

\* getdummyvalue: [gettypeval(typename)] * length.
getdummyvalue(typename, length) ==
    LET tv == gettypeval(typename) IN
    IF ~tv.ok THEN [kind |-> "ValueError", val |-> ListV(<<>>)]
    ELSE [kind |-> "ok", val |-> ListV([i \in 1..length |-> tv.val])]

\* --------------------------------------------------- Validation Filters

\* typevalidates: "true", "false", or "ValueError" when gettypeval raises.
RECURSIVE typevalidates(_, _)
\* typevalidates without lines 100-101: an empty list passes.
typevalidatesNoEmpty(testdict, arglist) ==
    IF arglist = <<>> THEN "true"
    ELSE IF Get(testdict, Head(arglist).name).items = <<>>
            /\ Get(testdict, Head(arglist).name).tag = "list"
    THEN typevalidates(testdict, Tail(arglist))
    ELSE IF ~gettypeval(Head(arglist).typename).ok THEN "ValueError"
    ELSE IF ~IsInstance(IF Get(testdict, Head(arglist).name).tag = "list"
                        THEN Get(testdict, Head(arglist).name).items[1]
                        ELSE Get(testdict, Head(arglist).name),
                        gettypeval(Head(arglist).typename).val)
    THEN "false"
    ELSE typevalidates(testdict, Tail(arglist))

typevalidates(testdict, arglist) ==
    IF arglist = <<>> THEN "true"
    ELSE LET arg == Head(arglist)
             v == Get(testdict, arg.name)
             tv == gettypeval(arg.typename)
         IN IF v.tag = "list"
            THEN IF v.items = <<>> THEN "false"
                 ELSE IF ~tv.ok THEN "ValueError"
                 ELSE IF ~IsInstance(v.items[1], tv.val) THEN "false"
                 ELSE typevalidates(testdict, Tail(arglist))
            ELSE IF ~tv.ok THEN "ValueError"
                 ELSE IF ~IsInstance(v, tv.val) THEN "false"
                 ELSE typevalidates(testdict, Tail(arglist))

\* any(n < 0 for n in items): "true", "false", or "TypeError" when an element
\* that is reached is not a number ('<' not supported between list and int).
RECURSIVE anyneg(_)
anyneg(items) ==
    IF items = <<>> THEN "false"
    ELSE IF ~IsScalar(Head(items)) THEN "TypeError"
    ELSE IF Head(items).n < 0 THEN "true"
    ELSE anyneg(Tail(items))

\* any(n < 0 for n in val): a scalar cannot be iterated (TypeError); a dict
\* iterates its keys.
AnyNegative(val) ==
    IF val.tag = "list" THEN anyneg(val.items)
    ELSE IF val.tag = "dict" THEN anyneg([i \in 1..Len(val.items) |-> IntV(val.items[i].n)])
    ELSE "TypeError"

\* validateoverflow, lines 69-76: the condition of one argument.
overflows(testvals, arg) ==
    IF ~Contains(arg.typename, "uint") THEN "false"
    ELSE LET a == AnyNegative(Get(testvals.inargs, arg.name)) IN
         IF a # "false" THEN a
         ELSE IF /\ "outargs" \in DOMAIN testvals
                 /\ Has(testvals.outargs, arg.name)
              THEN AnyNegative(Get(testvals.outargs, arg.name))
              ELSE "false"

\* validateoverflow: the loop does not stop at the first argument that sets
\* flag = False.  "true", "false" or "TypeError".
RECURSIVE overflowloop(_, _, _)
overflowloop(testvals, arglist, flag) ==
    IF arglist = <<>> THEN flag
    ELSE LET o == overflows(testvals, Head(arglist)) IN
         IF o = "TypeError" THEN "TypeError"
         ELSE overflowloop(testvals, Tail(arglist), IF o = "true" THEN "false" ELSE flag)

validateoverflow(testvals, arglist) == overflowloop(testvals, arglist, "true")

\* ------------------------------------------------ Combination Generator

\* copy.deepcopy of a value: a copy is equal.
deepcopy(v) == v

\* Which object a value bound to an argument is: the generic fixture
\* testdata["num"], the value testdata[key][x][role] of a fixture instance, or
\* the dict that line 124 creates for an out argument.  Two bindings of the
\* same object see each other's changes.
NumObject == [key |-> "num", x |-> 0, role |-> ""]
FixtureObject(key, x, role) == [key |-> key, x |-> x, role |-> role]
Accumulator(name) == [key |-> "{}", x |-> 0, role |-> name]
\* An object made by a copy: it is none of the above.
NewObject == [key |-> "copy", x |-> 0, role |-> ""]

\* temp = origtemp: the callable is passed the bound objects themselves.
deepcopyShared(orefs) == orefs

\* gettests, line 157: the objects of temp = copy.deepcopy(origtemp), given
\* those of origtemp: every one of them is new.
deepcopyobjects(orefs) ==
    [i \in 1..Len(orefs) |-> [name |-> orefs[i].name, val |-> NewObject]]

\* OrderedDict assignment od[name] = val: a new key goes last.
Put(od, name, val) ==
    IF Has(od, name)
    THEN [i \in 1..Len(od) |-> IF od[i].name = name THEN [name |-> name, val |-> val] ELSE od[i]]
    ELSE Append(od, [name |-> name, val |-> val])

\* instancedict is a sequence of [group, names] in insertion order.
HasGroup(instancedict, group) ==
    \E i \in 1..Len(instancedict) : instancedict[i].group = group

\* instancedict[group].append(name), after "if group not in instancedict".
AddToGroup(instancedict, group, name) ==
    IF HasGroup(instancedict, group)
    THEN [i \in 1..Len(instancedict) |->
            IF instancedict[i].group = group
            THEN [group |-> group, names |-> Append(instancedict[i].names, name)]
            ELSE instancedict[i]]
    ELSE Append(instancedict, [group |-> group, names |-> <<name>>])

\* lookupgroup with the two tests in the other order: the key without its
\* last character wins when both keys exist.
lookupgroupSingularFirst(pseudogroup, group, td) ==
    IF SliceTo(group, 0 - 1) \in DOMAIN td
    THEN [bound |-> TRUE, name |-> SliceTo(group, 0 - 1)]
    ELSE IF group \in DOMAIN td
    THEN [bound |-> TRUE, name |-> group]
    ELSE pseudogroup

\* gettests, lines 134-137: the fixture key of a role group.  Neither branch
\* taken leaves pseudogroup as the previous argument left it.
lookupgroup(pseudogroup, group, td) ==
    IF group \notin DOMAIN td /\ SliceTo(group, 0 - 1) \in DOMAIN td
    THEN [bound |-> TRUE, name |-> SliceTo(group, 0 - 1)]
    ELSE IF group \in DOMAIN td
    THEN [bound |-> TRUE, name |-> group]
    ELSE pseudogroup

\* defaultvalues with the elements of a "num" that is a list appended one by
\* one (extend instead of append).
defaultvaluesSpread(arg, td) ==
    IF arg.direction = "out" THEN <<DictV(<<>>)>>
    ELSE IF td["num"].tag = "list" THEN td["num"].items ELSE <<td["num"]>>

\* gettests, lines 119-128: an argument of the default role.
defaultvalues(arg, td) ==
    IF arg.direction = "out" THEN <<DictV(<<>>)>> ELSE <<td["num"]>>

\* The objects that defaultvalues appends.
defaultobjects(arg) ==
    IF arg.direction = "out" THEN <<Accumulator(arg.name)>> ELSE <<NumObject>>

\* gettests, lines 138-140: the values of an argument with a role, looked up
\* under the fixture key pg and the role name pg + suffix.
rolevalues(st, arg, td, pg, role) ==
    IF ~pg.bound
    THEN [st EXCEPT !.exc = "UnboundLocalError"]
    ELSE IF \E x \in 1..Len(td[pg.name]) : role \notin DOMAIN td[pg.name][x]
    THEN [st EXCEPT !.exc = "KeyError"]
    ELSE [st EXCEPT !.funcpassdict =
             Put(@, arg.name, [x \in 1..Len(td[pg.name]) |-> td[pg.name][x][role]]),
                    !.objects =
             Put(@, arg.name, [x \in 1..Len(td[pg.name]) |-> FixtureObject(pg.name, x, role)])]

\* gettests, lines 130-140: an argument with a role; group is the text of
\* the role before "-", suffix the rest.
rolestep(st, arg, td, group, suffix, pg) ==
    rolevalues([st EXCEPT !.instancedict = AddToGroup(@, group, arg.name),
                          !.funcpassdict = Put(@, arg.name, <<>>),
                          !.pseudogroup = pg],
               arg, td, pg, pg.name \o suffix)

\* gettests, lines 118-140: the loop body for one argument.  st holds the
\* locals count, instancedict, funcpassdict, pseudogroup and the exception
\* raised, if any.
argstep(st, arg, td) ==
    IF arg.role = "default"
    THEN IF HasGroup(st.instancedict, ToString(st.count))
         THEN [st EXCEPT !.exc = "AssertionError"]
         ELSE IF arg.direction # "out" /\ "num" \notin DOMAIN td
         THEN [st EXCEPT !.exc = "KeyError"]
         ELSE [st EXCEPT !.instancedict =
                             Append(@, [group |-> ToString(st.count), names |-> <<arg.name>>]),
                         !.funcpassdict = Put(@, arg.name, defaultvalues(arg, td)),
                         !.objects = Put(@, arg.name, defaultobjects(arg)),
                         !.count = @ + 1]
    ELSE rolestep(st, arg, td,
                  SliceTo(arg.role, Find(arg.role, "-")),
                  SliceFrom(arg.role, Find(arg.role, "-")),
                  lookupgroup(st.pseudogroup, SliceTo(arg.role, Find(arg.role, "-")), td))

\* gettests, lines 113-140: the loop over self.args.
RECURSIVE argloop(_, _, _)
argloop(st, arglist, td) ==
    IF arglist = <<>> \/ st.exc # "" THEN st
    ELSE argloop(argstep(st, Head(arglist), td), Tail(arglist), td)

grouping(arglist, td) ==
    argloop([exc |-> "", count |-> 0, instancedict |-> <<>>, funcpassdict |-> <<>>,
             objects |-> <<>>, pseudogroup |-> [bound |-> FALSE, name |-> ""]], arglist, td)

\* Zip as product(*lists): every argument of a group varied on its own.
RECURSIVE cross(_)
cross(lists) ==
    IF lists = <<>> THEN << <<>> >>
    ELSE [n \in 1..(Len(Head(lists)) * Len(cross(Tail(lists)))) |->
            <<Head(lists)[((n - 1) \div Len(cross(Tail(lists)))) + 1]>>
            \o cross(Tail(lists))[((n - 1) % Len(cross(Tail(lists)))) + 1]]

ZipCross(lists) == cross(lists)

\* zip(*lists): as long as the shortest list.
Zip(lists) ==
    LET n == CHOOSE m \in {Len(lists[j]) : j \in 1..Len(lists)} :
                 \A j \in 1..Len(lists) : m <= Len(lists[j])
    IN [i \in 1..n |-> [j \in 1..Len(lists) |-> lists[j][i]]]

\* gettests, lines 144-149: one zip per group, in instancedictlist order.
combinations(st) ==
    [g \in 1..Len(st.instancedict) |->
        Zip([j \in 1..Len(st.instancedict[g].names) |->
                Get(st.funcpassdict, st.instancedict[g].names[j])])]

RECURSIVE Flatten(_)
Flatten(ss) == IF ss = <<>> THEN <<>> ELSE Head(ss) \o Flatten(Tail(ss))

\* product with the first pool varying fastest.
RECURSIVE productFirstFastest(_)
productFirstFastest(pools) ==
    IF pools = <<>> THEN << <<>> >>
    ELSE Flatten([j \in 1..Len(productFirstFastest(Tail(pools))) |->
                    [i \in 1..Len(Head(pools)) |->
                        <<Head(pools)[i]>> \o productFirstFastest(Tail(pools))[j]]])

\* product as zip(*pools): the groups taken in lock-step.
productLockStep(pools) == Zip(pools)

\* itertools.product(*pools): the last pool varies fastest.
RECURSIVE product(_)
product(pools) ==
    IF pools = <<>> THEN << <<>> >>
    ELSE LET rest == product(Tail(pools))
         IN Flatten([i \in 1..Len(Head(pools)) |->
                        [j \in 1..Len(rest) |-> <<Head(pools)[i]>> \o rest[j]]])

\* gettests, lines 152-155: origtemp of one element x of the product.
bind(instancedict, x) ==
    Flatten([g \in 1..Len(instancedict) |->
                [k \in 1..Len(instancedict[g].names) |->
                    [name |-> instancedict[g].names[k], val |-> x[g][k]]]])

\* The origtemp of every combination, in the order of the product.
allorigtemps(st) ==
    LET xs == product(combinations(st))
    IN [i \in 1..Len(xs) |-> bind(st.instancedict, xs[i])]

\* The objects of the origtemp of every combination.
allorigobjects(st) == allorigtemps([st EXCEPT !.funcpassdict = st.objects])

\* The value of the object ref after the callable, which was passed the
\* objects trefs, has left them holding tmp; old is its value before.
valueafter(old, ref, trefs, tmp) ==
    IF \E j \in 1..Len(trefs) : trefs[j].val = ref
    THEN tmp[CHOOSE j \in 1..Len(trefs) : trefs[j].val = ref].val
    ELSE old

\* The fixture corpus after the call.
corpusafter(td, trefs, tmp) ==
    [k \in DOMAIN td |->
        IF k = "num" THEN valueafter(td[k], NumObject, trefs, tmp)
        ELSE [x \in 1..Len(td[k]) |->
                [role \in DOMAIN td[k][x] |->
                    valueafter(td[k][x][role], FixtureObject(k, x, role), trefs, tmp)]]]

\* The values that the combinations bind (cs, the objects being rs) after
\* the call.
boundafter(cs, rs, trefs, tmp) ==
    [c \in 1..Len(cs) |->
        [i \in 1..Len(cs[c]) |->
            [name |-> cs[c][i].name,
             val |-> valueafter(cs[c][i].val, rs[c][i].val, trefs, tmp)]]]

\* --------------------------------------------------- reference callables

\* The accumulators a callable can leave behind: at most MaxWrites distinct
\* indices in -1..MaxKey, written from the highest index down (sorted() has
\* something to do), each holding 7, -5 or the float 7.0.
WrittenValues == {IntV(7), IntV(0 - 5), FloatV(7)}

Reverse(s) == [i \in 1..Len(s) |-> s[Len(s) + 1 - i]]

Accumulators ==
    {DictV([i \in 1..Len(ks) |-> KV(ks[i], f[ks[i]])]) :
        <<ks, f>> \in UNION {{<<Reverse(Sorted(K)), g>> : g \in [K -> WrittenValues]} :
                      K \in {S \in SUBSET ((0 - 1)..MaxKey) : Cardinality(S) <= MaxWrites}}}

\* What a callable can do to one argument it was passed.  A callable that
\* "writes" fills a dict in any of the ways above; one that "mutates" assigns
\* a[-1] = 9 in a list, or leaves it, and writes 7 at index 0 of a dict.  A
\* number cannot be changed by the callee.
touched(v, func) ==
    IF v.tag = "dict"
    THEN IF func = "writes" THEN Accumulators ELSE {DictV(<<KV(0, IntV(7))>>)}
    ELSE IF v.tag = "list" /\ v.items # <<>> /\ func = "mutates"
    THEN {v, ListV([i \in 1..Len(v.items) |->
                      IF i = Len(v.items) THEN IntV(9) ELSE v.items[i]])}
    ELSE {v}

RECURSIVE touchedall(_, _)
touchedall(od, func) ==
    IF od = <<>> THEN {<<>>}
    ELSE {<<[name |-> Head(od).name, val |-> v]>> \o r :
            v \in touched(Head(od).val, func), r \in touchedall(Tail(od), func)}

\* x + 1 for a number x; a list (or dict) plus 1 is a TypeError.
PlusOne(x) ==
    IF x.tag = "float" THEN FloatV(x.n + 1) ELSE IntV(x.n + 1)

\* The reference callable named by spec.func, called as funcPy(**tmp): the set
\* of [outcome, temp] it can end with.  outcome is "ok", "ValueError" or
\* "other" (any other exception).
\*   add_one      y[0] = x + 1
\*   checked_div  if y == 0: raise ValueError; z[0] = x // y   (x, y >= 0)
\*   writes       any callable that fills its accumulators
\*   mutates      any callable that changes a list it was passed before it
\*                writes
funcPy(func, tmp) ==
    CASE func = "add_one" ->
            IF IsScalar(Get(tmp, "x"))
            THEN {[outcome |-> "ok",
                   temp |-> Put(tmp, "y", DictV(<<KV(0, PlusOne(Get(tmp, "x")))>>))]}
            ELSE {[outcome |-> "other", temp |-> tmp]}
      [] func = "checked_div" ->
            IF ~IsScalar(Get(tmp, "x")) \/ ~IsScalar(Get(tmp, "y"))
            THEN {[outcome |-> "other", temp |-> tmp]}
            ELSE IF Get(tmp, "y").n = 0
            THEN {[outcome |-> "ValueError", temp |-> tmp]}
            ELSE {[outcome |-> "ok",
                   temp |-> Put(tmp, "z",
                       DictV(<<KV(0, IntV(Get(tmp, "x").n \div Get(tmp, "y").n))>>))]}
      [] OTHER ->
            {[outcome |-> o, temp |-> t] :
                o \in {"ok", "ValueError"}, t \in touchedall(tmp, func)}
            \cup {[outcome |-> "other", temp |-> tmp]}

\* gettests, lines 165-174: the loop after a call that returned (tryloop),
\* and an out argument of it once dicttolist has run (tryout).
RECURSIVE tryloop(_, _, _, _)
RECURSIVE tryout(_, _, _, _, _)
tryloop(arglist, tmp, intests, outtests) ==
    IF arglist = <<>>
    THEN [kind |-> "ok", intests |-> intests, outtests |-> outtests]
    ELSE IF Head(arglist).direction = "out"
    THEN IF Get(tmp, Head(arglist).name).tag # "dict"
         THEN [kind |-> "AssertionError", intests |-> intests, outtests |-> outtests]
         ELSE tryout(arglist, tmp, intests, outtests,
                     dicttolist(Get(tmp, Head(arglist).name), Head(arglist).typename))
    ELSE tryloop(Tail(arglist), tmp,
                 Put(intests, Head(arglist).name, Get(tmp, Head(arglist).name)), outtests)

\* tryout with the two assignments of lines 169-172 exchanged.
tryoutSwapped(arglist, tmp, intests, outtests, temparglist) ==
    IF temparglist.kind # "ok"
    THEN [kind |-> temparglist.kind, intests |-> intests, outtests |-> outtests]
    ELSE tryloop(Tail(arglist), tmp,
                 Put(intests, Head(arglist).name, temparglist.val),
                 Put(outtests, Head(arglist).name,
                     getdummyvalue(Head(arglist).typename, PyLen(temparglist.val)).val))

tryout(arglist, tmp, intests, outtests, temparglist) ==
    IF temparglist.kind # "ok"
    THEN [kind |-> temparglist.kind, intests |-> intests, outtests |-> outtests]
    ELSE tryloop(Tail(arglist), tmp,
                 Put(intests, Head(arglist).name,
                     getdummyvalue(Head(arglist).typename, PyLen(temparglist.val)).val),
                 Put(outtests, Head(arglist).name, temparglist.val))

\* gettests, lines 178-184: the loop of the except ValueError branch
\* (exceptloop), and an out argument of it once getdummyvalue has run.
RECURSIVE exceptloop(_, _, _)
RECURSIVE exceptout(_, _, _, _)
\* exceptloop with the dummy as long as the dense reconstruction would be
\* (largest key + 1) instead of len(temp[arg.name]).
exceptloopDense(arglist, tmp, intests) ==
    IF arglist = <<>> THEN [kind |-> "ok", intests |-> intests]
    ELSE IF Head(arglist).direction = "out"
    THEN IF IsScalar(Get(tmp, Head(arglist).name))
         THEN [kind |-> "TypeError: no len()", intests |-> intests]
         ELSE exceptout(arglist, tmp, intests,
                        getdummyvalue(Head(arglist).typename,
                            IF Keys(Get(tmp, Head(arglist).name)) = {} THEN 0
                            ELSE 1 + CHOOSE k \in Keys(Get(tmp, Head(arglist).name)) :
                                    \A j \in Keys(Get(tmp, Head(arglist).name)) : j <= k))
    ELSE exceptloop(Tail(arglist), tmp,
                    Put(intests, Head(arglist).name, Get(tmp, Head(arglist).name)))

exceptloop(arglist, tmp, intests) ==
    IF arglist = <<>> THEN [kind |-> "ok", intests |-> intests]
    ELSE IF Head(arglist).direction = "out"
    THEN IF IsScalar(Get(tmp, Head(arglist).name))
         THEN [kind |-> "TypeError: no len()", intests |-> intests]
         ELSE exceptout(arglist, tmp, intests,
                        getdummyvalue(Head(arglist).typename,
                                      PyLen(Get(tmp, Head(arglist).name))))
    ELSE exceptloop(Tail(arglist), tmp,
                    Put(intests, Head(arglist).name, Get(tmp, Head(arglist).name)))

exceptout(arglist, tmp, intests, dummy) ==
    IF dummy.kind # "ok" THEN [kind |-> "ValueError", intests |-> intests]
    ELSE exceptloop(Tail(arglist), tmp, Put(intests, Head(arglist).name, dummy.val))

\* failed with tempdict["outargs"] assigned on this path too.
failedWithOutargs(e) ==
    IF e.kind = "ok"
    THEN [kind |-> "ok",
          tempdict |-> [outargs |-> <<>>, success |-> FALSE, inargs |-> deepcopy(e.intests)]]
    ELSE [kind |-> e.kind, tempdict |-> <<>>]

\* gettests, lines 185-186: tempdict of a call that raised ValueError, from
\* the result e of the except branch's loop.
failed(e) ==
    IF e.kind = "ok"
    THEN [kind |-> "ok", tempdict |-> [success |-> FALSE, inargs |-> deepcopy(e.intests)]]
    ELSE [kind |-> e.kind, tempdict |-> <<>>]

\* aftertry without the except clause: the ValueError propagates.
aftertryNoExcept(arglist, r, t) ==
    IF t.kind = "ok"
    THEN [kind |-> "ok",
          tempdict |-> [outargs |-> deepcopy(t.outtests), success |-> TRUE,
                        inargs |-> deepcopy(t.intests)]]
    ELSE [kind |-> t.kind, tempdict |-> <<>>]

\* gettests, lines 175-186: tempdict from the result t of the try block.
\* A ValueError raised in the try block, by the callable or by dicttolist,
\* enters the except branch.
aftertry(arglist, r, t) ==
    IF t.kind = "ok"
    THEN [kind |-> "ok",
          tempdict |-> [outargs |-> deepcopy(t.outtests), success |-> TRUE,
                        inargs |-> deepcopy(t.intests)]]
    ELSE IF t.kind = "ValueError"
    THEN failed(exceptloop(arglist, r.temp, t.intests))
    ELSE [kind |-> t.kind, tempdict |-> <<>>]

\* maketempdict with a bare "except:" in place of "except ValueError:".
maketempdictCatchAll(arglist, r) ==
    aftertry(arglist, r,
             IF r.outcome = "ok"
             THEN tryloop(arglist, r.temp, <<>>, <<>>)
             ELSE [kind |-> "ValueError", intests |-> <<>>, outtests |-> <<>>])

\* gettests, lines 160-186: tempdict of one combination from the call's
\* outcome r.  kind is "ok", "hang" or the exception that propagates.
maketempdict(arglist, r) ==
    IF r.outcome = "other" THEN [kind |-> "other", tempdict |-> <<>>]
    ELSE aftertry(arglist, r,
                  IF r.outcome = "ok"
                  THEN tryloop(arglist, r.temp, <<>>, <<>>)
                  ELSE [kind |-> "ValueError", intests |-> <<>>, outtests |-> <<>>])

\* gettests, lines 187-190: "keep", "drop", or the exception a validator
\* raises; validateoverflow is called only when typevalidates returned True.
verdict(vo) ==
    IF vo = "TypeError" THEN "TypeError: validateoverflow"
    ELSE IF vo = "true" THEN "keep" ELSE "drop"

typechecked(tv, tempdict, arglist) ==
    IF tv = "ValueError" THEN "ValueError"
    ELSE IF tv = "false" THEN "drop"
    ELSE verdict(validateoverflow(tempdict, arglist))

validate(tempdict, arglist) ==
    typechecked(typevalidates(tempdict.inargs, arglist), tempdict, arglist)

\* gettests, lines 157-190: what one combination ends in, given how its call
\* ended: kind is "keep", "drop", "hang" or "raise" (exc names the exception).
validated(m, v) ==
    IF v \in {"keep", "drop"} THEN [kind |-> v, exc |-> "", tempdict |-> m.tempdict]
    ELSE [kind |-> "raise", exc |-> v, tempdict |-> <<>>]

assembled(arglist, m) ==
    IF m.kind = "hang" THEN [kind |-> "hang", exc |-> "", tempdict |-> <<>>]
    ELSE IF m.kind # "ok" THEN [kind |-> "raise", exc |-> m.kind, tempdict |-> <<>>]
    ELSE validated(m, validate(m.tempdict, arglist))

iteration(arglist, r) == assembled(arglist, maketempdict(arglist, r))

\* ------------------------------------------- kernels and fixture corpora

no_role_kernels ==
    {"awkward_NumpyArray_sort_asstrings_uint8", "awkward_argsort", "awkward_sort"}

\* Argument.__init__
Argument(name, typename, direction, role) ==
    [name |-> name, typename |-> typename, direction |-> direction, role |-> role]

\* The kernels the model constructs Specifications for: templ is the
\* templatized kernel name, name the specialization's, func the reference
\* callable that eval(self.name) yields.
Kernels ==
    { [templ |-> "add_one", name |-> "add_one", blacklisted |-> FALSE,
       func |-> "add_one",
       args |-> << Argument("x", "int64_t", "in", "default"),
                   Argument("y", "List[int64_t]", "out", "default") >>],
      [templ |-> "checked_div", name |-> "checked_div", blacklisted |-> FALSE,
       func |-> "checked_div",
       args |-> << Argument("x", "int64_t", "in", "G-n"),
                   Argument("y", "int64_t", "in", "Hs-n"),
                   Argument("z", "List[int64_t]", "out", "default") >>],
      [templ |-> "awkward_new_Identities", name |-> "awkward_new_Identities64",
       blacklisted |-> FALSE, func |-> "writes",
       args |-> << Argument("toptr", "List[int64_t]", "out", "default"),
                   Argument("length", "int64_t", "in", "default") >>],
      [templ |-> "awkward_new_Identities", name |-> "awkward_new_Identities32",
       blacklisted |-> TRUE, func |-> "writes",
       args |-> << Argument("toptr", "List[int32_t]", "out", "default"),
                   Argument("length", "int64_t", "in", "default") >>],
      [templ |-> "awkward_sort", name |-> "awkward_sort_int64", blacklisted |-> FALSE,
       func |-> "mutates",
       args |-> << Argument("toptr", "List[int64_t]", "out", "default"),
                   Argument("fromptr", "Const[List[int64_t]]", "in", "G-a"),
                   Argument("length", "int64_t", "in", "G-n") >>],
      [templ |-> "awkward_BitMaskedArray_to_ByteMaskedArray",
       name |-> "awkward_BitMaskedArray_to_ByteMaskedArray",
       blacklisted |-> FALSE, func |-> "mutates",
       args |-> << Argument("frombitmask", "Const[List[uint8_t]]", "in", "G-a"),
                   Argument("tobytemask", "List[int8_t]", "out", "default"),
                   Argument("bitmasklength", "int64_t", "in", "G-n") >>],
      [templ |-> "awkward_NumpyArray_fill", name |-> "awkward_NumpyArray_fill_touint8",
       blacklisted |-> FALSE, func |-> "writes",
       args |-> << Argument("toptr", "List[uint8_t]", "out", "default"),
                   Argument("mask", "uint8_t", "in", "default") >>],
      [templ |-> "awkward_ListArray_num", name |-> "awkward_ListArray_num_64",
       blacklisted |-> FALSE, func |-> "writes",
       args |-> << Argument("tonum", "List[int64_t]", "out", "default"),
                   Argument("fromstarts", "List[str]", "in", "default") >>] }

\* Instance i of a role group stored under the fixture key key: the suffix -a
\* is a list, the suffix -n a number.
Instance(key, i, off) ==
    [r \in {key \o "-a", key \o "-n"} |->
        IF r = key \o "-a" THEN ListV(<<IntV(i + off), IntV(i + off - 2)>>)
        ELSE IntV(i + off - 1)]

Instances(key, n, off) == [i \in 1..n |-> Instance(key, i, off)]

\* A fixture corpus: num is the generic fixture, nG the number of instances of
\* "G" (-1: no such key), hmode names which of the keys "Hs" and "H" exist.
Fixture(num, nG, hmode) ==
    [k \in {"num"} \cup (IF nG >= 0 THEN {"G"} ELSE {})
               \cup (IF hmode \in {"Hs", "both"} THEN {"Hs"} ELSE {})
               \cup (IF hmode \in {"H", "both"} THEN {"H"} ELSE {}) |->
        CASE k = "num" -> num
          [] k = "G" -> Instances("G", nG, 0)
          [] k = "Hs" -> Instances("Hs", MaxInst, 0)
          [] k = "H" -> Instances("H", MaxInst, 10)]

Fixtures ==
    {Fixture(num, nG, hmode) :
        num \in {IntV(3), ListV([i \in 1..MaxNum |-> IntV(i)])},
        nG \in (0 - 1)..MaxInst,
        hmode \in {"none", "H", "Hs", "both"}}

\* ------------------------------------------------------------- actions

\* No file of a unit-test emitter.
nofile == [written |-> FALSE, funcs |-> <<>>]

\* The unit-test emitters, the directories and the RDataFrame generator at
\* rest: the state of their variables in a run that does not involve them.
NoUnit == fixture = <<>> /\ cpuunit = nofile /\ cudaunit = nofile
NoMain == dirs = <<>> /\ written = {} /\ before = <<>>
NoRDF == cache = <<>> /\ submitted = <<>> /\ calls = <<>>

\* gettests and the kernel-test emitters before the constructor has begun.
NoTests ==
    /\ combos = <<>>
    /\ refs = <<>>
    /\ idx = 0
    /\ origtemp = <<>>
    /\ temp = <<>>
    /\ outcome = ""
    /\ log = <<>>
    /\ allvals = <<>>
    /\ tests = <<>>
    /\ testfile = <<>>
    /\ cpufile = <<>>
    /\ cudafile = <<>>
    /\ run = 1
    /\ first = <<>>

Init ==
    /\ spec \in Kernels
    /\ testdata \in Fixtures
    /\ pc = "init"
    /\ exc = ""
    /\ NoTests
    /\ NoUnit
    /\ NoMain
    /\ NoRDF

\* Specification.__init__, lines 59-60.
Blacklisted ==
    /\ pc = "init"
    /\ spec.blacklisted
    /\ tests' = <<>>
    /\ pc' = "done"
    /\ UNCHANGED <<spec, testdata, exc, combos, refs, idx, origtemp, temp, outcome, log, allvals,
                   testfile, cpufile, cudafile, run, first, others>>

\* Specification.__init__, lines 61-62.
NoRoleKernel ==
    /\ pc = "init"
    /\ ~spec.blacklisted
    /\ spec.templ \in no_role_kernels
    /\ tests' = <<>>
    /\ pc' = "done"
    /\ UNCHANGED <<spec, testdata, exc, combos, refs, idx, origtemp, temp, outcome, log, allvals,
                   testfile, cpufile, cudafile, run, first, others>>

\* BeginTests without the tests of lines 59 and 61.
BeginTestsUnguarded ==
    /\ pc = "init"
    /\ \E st \in {grouping(spec.args, testdata)} :
       IF st.exc # ""
       THEN /\ pc' = "raised"
            /\ exc' = st.exc
            /\ combos' = combos
            /\ refs' = refs
       ELSE /\ pc' = "loop"
            /\ exc' = exc
            /\ combos' = allorigtemps(st)
            /\ refs' = allorigobjects(st)
    /\ allvals' = <<>>
    /\ UNCHANGED <<spec, testdata, idx, origtemp, temp, outcome, log, tests, testfile, cpufile, cudafile, run, first, others>>

\* BeginTests without line 113: allvals outlives the call, as a list kept in
\* the class or the module would.
BeginTestsAccumulating ==
    /\ pc = "init"
    /\ ~spec.blacklisted
    /\ spec.templ \notin no_role_kernels
    /\ \E st \in {grouping(spec.args, testdata)} :
       IF st.exc # ""
       THEN /\ pc' = "raised"
            /\ exc' = st.exc
            /\ combos' = combos
            /\ refs' = refs
       ELSE /\ pc' = "loop"
            /\ exc' = exc
            /\ combos' = allorigtemps(st)
            /\ refs' = allorigobjects(st)
    /\ UNCHANGED <<spec, testdata, idx, origtemp, temp, outcome, log, allvals, tests,
                   testfile, cpufile, cudafile, run, first, others>>

\* Specification.__init__, line 64, and gettests up to the product (lines
\* 113-151): an exception leaves the constructor.
BeginTests ==
    /\ pc = "init"
    /\ ~spec.blacklisted
    /\ spec.templ \notin no_role_kernels
    /\ \E st \in {grouping(spec.args, testdata)} :
       IF st.exc # ""
       THEN /\ pc' = "raised"
            /\ exc' = st.exc
            /\ combos' = combos
            /\ refs' = refs
       ELSE /\ pc' = "loop"
            /\ exc' = exc
            /\ combos' = allorigtemps(st)
            /\ refs' = allorigobjects(st)
    /\ allvals' = <<>>
    /\ UNCHANGED <<spec, testdata, idx, origtemp, temp, outcome, log, tests, testfile, cpufile, cudafile, run, first, others>>

\* gettests, lines 151-190: the body of the loop for the next combination.
Combination ==
    /\ pc = "loop"
    /\ idx < Len(combos)
    /\ idx' = idx + 1
    /\ origtemp' = combos[idx + 1]
    /\ \E r \in funcPy(spec.func, deepcopy(combos[idx + 1])) :
       \E it \in {iteration(spec.args, r)} :
          /\ testdata' = corpusafter(testdata, deepcopyobjects(refs[idx + 1]), r.temp)
          /\ combos' = boundafter(combos, refs, deepcopyobjects(refs[idx + 1]), r.temp)
          /\ temp' = r.temp
          /\ outcome' = r.outcome
          /\ pc' = CASE it.kind = "hang" -> "hang"
                      [] it.kind = "raise" -> "raised"
                      [] OTHER -> "loop"
          /\ exc' = it.exc
          /\ allvals' = IF it.kind = "keep" THEN Append(allvals, it.tempdict) ELSE allvals
          /\ log' = IF it.kind \in {"keep", "drop"}
                    THEN Append(log, [outcome |-> r.outcome, kept |-> it.kind = "keep"])
                    ELSE log
    /\ UNCHANGED <<spec, refs, tests, testfile, cpufile, cudafile, run, first, others>>

\* gettests, line 192, and the assignment to self.tests (line 64).
Return ==
    /\ pc = "loop"
    /\ idx = Len(combos)
    /\ tests' = allvals
    /\ pc' = "done"
    /\ UNCHANGED <<spec, testdata, exc, combos, refs, idx, origtemp, temp, outcome, log, allvals,
                   testfile, cpufile, cudafile, run, first, others>>

\* The body of the function written for a kernel without tests (lines
\* 400-404, 495-499, 857-860): it sets no inputs, calls nothing and raises.
skipped == [inputs |-> <<>>, call |-> FALSE, expects |-> "NotImplementedError", outputs |-> <<>>]

\* genspectests, lines 409-436: the body of the function of one TestCase.  The
\* inputs are assigned and funcPy is called with them; a success asserts the
\* recorded outputs, a failure sits in pytest.raises(Exception).
pybody(test) ==
    [inputs |-> test.inargs, call |-> TRUE,
     expects |-> IF test.success THEN "returns" ELSE "fails",
     outputs |-> IF test.success THEN test.outargs ELSE <<>>]

\* genspectests, lines 406-408: the loop over spec.tests; num counts from 1.
RECURSIVE writetests(_, _, _)
writetests(name, tsts, num) ==
    IF tsts = <<>> THEN <<>>
    ELSE <<[funcname |-> "test_py" \o name \o "_" \o ToString(num),
            skip |-> FALSE, test |-> Head(tsts), body |-> pybody(Head(tsts))]>>
         \o writetests(name, Tail(tsts), num + 1)

\* testfunctions without lines 396-404: nothing is written for an empty list.
testfunctionsNoSkip(name, tsts) == writetests(name, tsts, 1)

\* genspectests, lines 395-408: the test functions written for one kernel; a
\* kernel without tests gets one function, marked to be skipped.
testfunctions(name, tsts) ==
    IF tsts = <<>>
    THEN <<[funcname |-> "test_py" \o name \o "_" \o ToString(1),
            skip |-> TRUE, test |-> <<>>, body |-> skipped]>>
    ELSE writetests(name, tsts, 1)

\* genspectests for the Specification constructed.
genspectests ==
    /\ pc = "done"
    /\ testfile' = testfunctions(spec.name, tests)
    /\ pc' = "emitted"
    /\ UNCHANGED <<spec, testdata, exc, combos, refs, idx, origtemp, temp, outcome, log,
                   allvals, tests, cpufile, cudafile, run, first, others>>

\* gencpukerneltests, lines 503-548: the body of the function of one TestCase.
\* A success asserts the outputs and that no error string came back, a
\* failure asserts that funcC(args).str is set.
cpubody(test) ==
    [inputs |-> test.inargs, call |-> TRUE,
     expects |-> IF test.success THEN "returns" ELSE "fails",
     outputs |-> IF test.success THEN test.outargs ELSE <<>>]

\* gencpukerneltests, lines 500-502: the loop over spec.tests.
RECURSIVE writecputests(_, _, _)
writecputests(name, tsts, num) ==
    IF tsts = <<>> THEN <<>>
    ELSE <<[funcname |-> "test_cpu" \o name \o "_" \o ToString(num),
            skip |-> FALSE, test |-> Head(tsts), body |-> cpubody(Head(tsts))]>>
         \o writecputests(name, Tail(tsts), num + 1)

\* gencpukerneltests, lines 490-502: the skipped function of an empty list,
\* then the loop (which an empty list does not enter).
cpufunctions(name, tsts) ==
    (IF tsts = <<>>
     THEN <<[funcname |-> "test_cpu" \o name \o "_" \o ToString(1),
             skip |-> TRUE, test |-> <<>>, body |-> skipped]>>
     ELSE <<>>)
    \o writecputests(name, tsts, 1)

\* gencpukerneltests with a loop that takes the TestCases off the list it
\* walks (tests.pop(0)).
gencpukerneltestsConsuming ==
    /\ pc = "emitted"
    /\ cpufile' = cpufunctions(spec.name, tests)
    /\ tests' = <<>>
    /\ pc' = "cpu"
    /\ UNCHANGED <<spec, testdata, exc, combos, refs, idx, origtemp, temp, outcome, log,
                   allvals, testfile, cudafile, run, first, others>>

\* gencpukerneltests for the Specification constructed (main calls it after
\* genspectests, lines 1171-1172).
gencpukerneltests ==
    /\ pc = "emitted"
    /\ cpufile' = cpufunctions(spec.name, tests)
    /\ pc' = "cpu"
    /\ UNCHANGED <<spec, testdata, exc, combos, refs, idx, origtemp, temp, outcome, log,
                   allvals, tests, testfile, cudafile, run, first, others>>

\* The templatized kernels gencudakerneltests writes a file for: the members
\* of the list of lines 698-799 the model has a kernel of, and three more.
cuda_kernels_tests ==
    {"awkward_Index_nones_as_index", "awkward_ListArray_min_range",
     "awkward_BitMaskedArray_to_ByteMaskedArray", "awkward_NumpyArray_fill",
     "awkward_ListArray_fill"}

\* s.count(sub), for a sub that cannot overlap itself.
count(s, sub) ==
    Cardinality({i \in 1..(Len(s) - Len(sub) + 1) : SubSeq(s, i, i + Len(sub) - 1) = sub})

\* s.rstrip(c) for a single character c.
RECURSIVE rstrip(_, _)
rstrip(s, c) ==
    IF Len(s) > 0 /\ SubSeq(s, Len(s), Len(s)) = c THEN rstrip(SubSeq(s, 1, Len(s) - 1), c)
    ELSE s

\* s.replace(sub, "", 1)
removefirst(s, sub) ==
    IF Contains(s, sub)
    THEN SubSeq(s, 1, Find(s, sub)) \o SubSeq(s, Find(s, sub) + Len(sub) + 1, Len(s))
    ELSE s

\* remove_const, lines 439-442: the first "Const[" goes, and with it every
\* "]" the name ends in.
remove_const(typename) ==
    IF Contains(typename, "Const[") THEN rstrip(removefirst(typename, "Const["), "]")
    ELSE typename

\* gencudakerneltests, lines 866-891: a list of lists among the inputs of a
\* TestCase ends the emitter with NotImplementedError.
nestedinput(arglist, test) ==
    \E i \in 1..Len(test.inargs) :
       \E j \in 1..Len(arglist) :
          /\ arglist[j].name = test.inargs[i].name
          /\ count(remove_const(arglist[j].typename), "List") = 2

\* gencudakerneltests, lines 864-926: the body of the function of one
\* TestCase.  The inputs and funcC are set; only a success calls funcC and
\* asserts (lines 905-925), a failure writes nothing more.
cudabody(test) ==
    [inputs |-> test.inargs, call |-> test.success,
     expects |-> IF test.success THEN "returns" ELSE "nothing",
     outputs |-> IF test.success THEN test.outargs ELSE <<>>]

\* gencudakerneltests, lines 862-864: the loop over spec.tests.
RECURSIVE writecudatests(_, _, _)
writecudatests(name, tsts, num) ==
    IF tsts = <<>> THEN <<>>
    ELSE <<[funcname |-> "test_cuda" \o name \o "_" \o ToString(num),
            skip |-> FALSE, test |-> Head(tsts), body |-> cudabody(Head(tsts))]>>
         \o writecudatests(name, Tail(tsts), num + 1)

\* gencudakerneltests, lines 851-864: as the CPU emitter.
cudafunctions(name, tsts) ==
    (IF tsts = <<>>
     THEN <<[funcname |-> "test_cuda" \o name \o "_" \o ToString(1),
             skip |-> TRUE, test |-> <<>>, body |-> skipped]>>
     ELSE <<>>)
    \o writecudatests(name, tsts, 1)

\* gencudakerneltests for the Specification constructed (lines 826-827: only
\* a kernel of cuda_kernels_tests gets a file).
gencudakerneltests ==
    /\ pc = "cpu"
    /\ IF spec.templ \notin cuda_kernels_tests
       THEN /\ pc' = "cuda"
            /\ UNCHANGED <<cudafile, exc>>
       ELSE IF \E i \in 1..Len(tests) : nestedinput(spec.args, tests[i])
       THEN /\ pc' = "raised"
            /\ exc' = "NotImplementedError"
            /\ UNCHANGED cudafile
       ELSE /\ pc' = "cuda"
            /\ cudafile' = cudafunctions(spec.name, tests)
            /\ UNCHANGED exc
    /\ UNCHANGED <<spec, testdata, combos, refs, idx, origtemp, temp, outcome, log,
                   allvals, tests, testfile, cpufile, run, first, others>>

Next ==
    \/ Blacklisted \/ NoRoleKernel \/ BeginTests \/ Combination \/ Return
    \/ genspectests \/ gencpukerneltests \/ gencudakerneltests

Spec == Init /\ [][Next]_vars

\* ----------------------------------------------- a second construction

\* The reference callables that are functions of their arguments.
Functional == {"add_one", "checked_div"}

\* readspec run again on the same kernel specification and fixture corpus:
\* a new Specification is constructed.  Nothing of the first construction is
\* left but what the code itself keeps; the names of gettests are bound anew
\* by its own assignments (allvals by line 113).
Reconstruct ==
    /\ pc = "done"
    /\ run = 1
    /\ run' = 2
    /\ first' = tests
    /\ pc' = "init"
    /\ tests' = <<>>
    /\ exc' = ""
    /\ combos' = <<>>
    /\ refs' = <<>>
    /\ idx' = 0
    /\ origtemp' = <<>>
    /\ temp' = <<>>
    /\ outcome' = ""
    /\ log' = <<>>
    /\ UNCHANGED <<spec, testdata, allvals, testfile, cpufile, cudafile, others>>

InitTwice ==
    /\ Init
    /\ spec.blacklisted \/ spec.templ \in no_role_kernels \/ spec.func \in Functional

NextTwice == Next \/ Reconstruct

SpecTwice == InitTwice /\ [][NextTwice]_vars

\* ------------------------------------------------ the unit-test emitters

\* Largest number of unit-test records a kernel has in the fixture corpus.
MaxRecords == 3

\* s.replace(sub, ""), for a sub whose removal leaves no new occurrence.
RECURSIVE removeall(_, _)
removeall(s, sub) == IF Contains(s, sub) THEN removeall(removefirst(s, sub), sub) ELSE s

\* gettypename, lines 296-297: a trailing "_t" goes.
withoutsuffix(typename) ==
    IF Len(typename) >= 2 /\ SubSeq(typename, Len(typename) - 1, Len(typename)) = "_t"
    THEN SubSeq(typename, 1, Len(typename) - 2)
    ELSE typename

\* gettypename, lines 294-298.
gettypename(spectype) ==
    withoutsuffix(removeall(removeall(removeall(spectype, "List"), "["), "]"))

\* np.iinfo(dtype).min and .max for the integer types of the model.
iinfo(dtype) ==
    CASE dtype = "int8" -> [min |-> 0 - 128, max |-> 127]
      [] dtype = "uint8" -> [min |-> 0, max |-> 255]
      [] dtype = "int16" -> [min |-> 0 - 32768, max |-> 32767]
      [] dtype = "uint16" -> [min |-> 0, max |-> 65535]

\* next(argument for argument in args if argument.name == arg).typename
argtype(args, arg) ==
    args[CHOOSE j \in 1..Len(args) :
            /\ args[j].name = arg
            /\ \A k \in 1..(j - 1) : args[k].name # arg].typename

\* checkintrange, lines 266, 269, 273: min_val <= data <= max_val.
inlimits(data, lim) == lim.min <= data.n /\ data.n <= lim.max

\* checkintrange, lines 264-274: the value of one integer-typed argument,
\* walked as its type name says.
rangeok(val, typename, lim) ==
    IF Contains(typename, "List[List")
    THEN \A i \in 1..Len(val.items) :
            \A j \in 1..Len(val.items[i].items) : inlimits(val.items[i].items[j], lim)
    ELSE IF Contains(typename, "List")
    THEN \A i \in 1..Len(val.items) : inlimits(val.items[i], lim)
    ELSE inlimits(val, lim)

\* checkintrange, lines 257-274: one (arg, val) of test_args.
rangechecked(val, typename) ==
    (Contains(typename, "int") \/ Contains(typename, "uint"))
    => rangeok(val, typename, iinfo(gettypename(typename)))

\* checkintrange without line 255: a record marked as an error is checked
\* like any other.
checkintrangeAlways(test_args, error, args) ==
    \A i \in 1..Len(test_args) :
       rangechecked(test_args[i].val, remove_const(argtype(args, test_args[i].name)))

\* checkintrange, lines 253-275.
checkintrange(test_args, error, args) ==
    IF error THEN TRUE
    ELSE \A i \in 1..Len(test_args) :
            rangechecked(test_args[i].val, remove_const(argtype(args, test_args[i].name)))

\* checkuint, lines 244-249: the loop; it does not stop at the first argument
\* that sets flag = False, and any(n < 0 for n in val) raises TypeError on a
\* list of lists.  "true", "false" or "TypeError".
RECURSIVE uintloop(_, _, _)
uintloop(test_args, args, flag) ==
    IF test_args = <<>> THEN (IF flag THEN "true" ELSE "false")
    ELSE IF ~Contains(remove_const(argtype(args, Head(test_args).name)), "List[uint")
    THEN uintloop(Tail(test_args), args, flag)
    ELSE CASE AnyNegative(Head(test_args).val) = "TypeError" -> "TypeError"
           [] AnyNegative(Head(test_args).val) = "true" -> uintloop(Tail(test_args), args, FALSE)
           [] OTHER -> uintloop(Tail(test_args), args, flag)

\* checkuint, lines 242-250.
checkuint(test_args, args) == uintloop(test_args, args, TRUE)

\* getunittests, lines 289-291: {**test_outputs, **test_inputs}; the keys of
\* the outputs come first, a key of both has the value of the inputs.
getunittests(test_inputs, test_outputs) ==
    [i \in 1..Len(test_outputs) |->
        IF Has(test_inputs, test_outputs[i].name)
        THEN [name |-> test_outputs[i].name, val |-> Get(test_inputs, test_outputs[i].name)]
        ELSE test_outputs[i]]
    \o SelectSeq(test_inputs, LAMBDA e : ~Has(test_outputs, e.name))

\* The test function of one record (lines 600-697, 991-1116): its name, the
\* skip mark of gencudaunittests, the record, and what it asserts of the call.
unitfunction(prefix, name, num, skip, test) ==
    [funcname |-> prefix \o name \o "_" \o ToString(num), skip |-> skip, test |-> test,
     expects |-> IF test.error THEN "fails" ELSE "returns"]

\* unitloop with num += 1 moved out of the if of lines 604-605: every record
\* takes a number.
RECURSIVE unitloopCounting(_, _, _, _, _, _, _)
unitloopCounting(prefix, name, args, skip, tsts, num, file) ==
    IF tsts = <<>> THEN [exc |-> "", funcs |-> file]
    ELSE IF checkuint(getunittests(Head(tsts).inputs, Head(tsts).outputs), args) = "TypeError"
    THEN [exc |-> "TypeError", funcs |-> file]
    ELSE IF /\ checkuint(getunittests(Head(tsts).inputs, Head(tsts).outputs), args) = "true"
            /\ checkintrange(getunittests(Head(tsts).inputs, Head(tsts).outputs),
                             Head(tsts).error, args)
    THEN unitloopCounting(prefix, name, args, skip, Tail(tsts), num + 1,
                          Append(file, unitfunction(prefix, name, num, skip, Head(tsts))))
    ELSE unitloopCounting(prefix, name, args, skip, Tail(tsts), num + 1, file)

\* gencpuunittests, lines 598-605, and gencudaunittests, lines 988-999: the
\* loop over the records of one kernel.  funcName is made of num as it is
\* before the record is checked; num moves on only when the record is written.
RECURSIVE unitloop(_, _, _, _, _, _, _)
unitloop(prefix, name, args, skip, tsts, num, file) ==
    IF tsts = <<>> THEN [exc |-> "", funcs |-> file]
    ELSE IF checkuint(getunittests(Head(tsts).inputs, Head(tsts).outputs), args) = "TypeError"
    THEN [exc |-> "TypeError", funcs |-> file]
    ELSE IF /\ checkuint(getunittests(Head(tsts).inputs, Head(tsts).outputs), args) = "true"
            /\ checkintrange(getunittests(Head(tsts).inputs, Head(tsts).outputs),
                             Head(tsts).error, args)
    THEN unitloop(prefix, name, args, skip, Tail(tsts), num + 1,
                  Append(file, unitfunction(prefix, name, num, skip, Head(tsts))))
    ELSE unitloop(prefix, name, args, skip, Tail(tsts), num, file)

\* The kernels the unit-test emitters are run for; the types are 8 and 16
\* bits wide.
UnitKernels ==
    { [templ |-> "awkward_Index_nones_as_index", name |-> "awkward_Index_nones_as_index_8",
       args |-> << Argument("fromindex", "int8_t", "in", "default") >>],
      [templ |-> "awkward_ListArray_min_range", name |-> "awkward_ListArray_min_range_U8",
       args |-> << Argument("lenstarts", "uint8_t", "in", "default") >>],
      [templ |-> "awkward_sort", name |-> "awkward_sort_int8",
       args |-> << Argument("toptr", "List[int8_t]", "out", "default") >>],
      [templ |-> "awkward_BitMaskedArray_to_ByteMaskedArray",
       name |-> "awkward_BitMaskedArray_to_ByteMaskedArray",
       args |-> << Argument("frombitmask", "Const[List[uint8_t]]", "in", "default") >>],
      [templ |-> "awkward_ListArray_fill", name |-> "awkward_ListArray_fill_to16",
       args |-> << Argument("tostarts", "List[List[int16_t]]", "out", "default") >>],
      [templ |-> "awkward_NumpyArray_fill", name |-> "awkward_NumpyArray_fill_tofloat",
       args |-> << Argument("toptr", "List[float]", "out", "default") >>],
      [templ |-> "awkward_NumpyArray_fill", name |-> "awkward_NumpyArray_fill_toU16",
       args |-> << Argument("toptr", "List[uint16_t]", "out", "default"),
                   Argument("length", "int16_t", "in", "default") >>],
      [templ |-> "awkward_ListArray_min_range", name |-> "awkward_ListArray_min_range_UU8",
       args |-> << Argument("fromstarts", "Const[List[List[uint8_t]]]", "in", "default") >>],
      [templ |-> "awkward_new_Identities", name |-> "awkward_new_Identities8",
       args |-> << Argument("toptr", "List[int16_t]", "inout", "default") >>] }

\* The values the records give an argument of a type: at, and one beyond, the
\* ends of the type's range.
UnitValues(typename) ==
    CASE typename = "int8_t" -> {IntV(0 - 129), IntV(0 - 128), IntV(127), IntV(128)}
      [] typename = "uint8_t" -> {IntV(0 - 1), IntV(0), IntV(255), IntV(256)}
      [] typename = "List[int8_t]" ->
            {ListV(<<>>), ListV(<<IntV(0 - 128), IntV(127)>>),
             ListV(<<IntV(0), IntV(0 - 129)>>), ListV(<<IntV(128)>>)}
      [] typename = "Const[List[uint8_t]]" ->
            {ListV(<<>>), ListV(<<IntV(0), IntV(255)>>),
             ListV(<<IntV(0), IntV(0 - 1)>>), ListV(<<IntV(256)>>)}
      [] typename = "List[List[int16_t]]" ->
            {ListV(<<>>),
             ListV(<<ListV(<<IntV(0 - 32768)>>), ListV(<<IntV(32767)>>)>>),
             ListV(<<ListV(<<IntV(0)>>), ListV(<<IntV(0), IntV(32768)>>)>>),
             ListV(<<ListV(<<IntV(0 - 32769)>>)>>)}
      [] typename = "List[float]" -> {ListV(<<FloatV(70000)>>)}
      [] typename = "List[uint16_t]" -> {ListV(<<IntV(65535)>>), ListV(<<IntV(0 - 1)>>)}
      [] typename = "int16_t" -> {IntV(32767), IntV(32768)}
      [] typename = "Const[List[List[uint8_t]]]" -> {ListV(<<>>), ListV(<<ListV(<<IntV(0)>>)>>)}
      [] typename = "List[int16_t]" -> {ListV(<<IntV(32767)>>), ListV(<<IntV(32768)>>)}

\* The dicts that give every argument of arglist a value of its type.
RECURSIVE bindings(_)
bindings(arglist) ==
    IF arglist = <<>> THEN {<<>>}
    ELSE {<<[name |-> Head(arglist).name, val |-> v]>> \o rest :
             v \in UnitValues(Head(arglist).typename), rest \in bindings(Tail(arglist))}

\* The records of kernel-test-data.json, "unit-tests", a kernel can have:
\* inputs, outputs and the error mark.
UnitRecords(k) ==
    {[inputs |-> i, outputs |-> o, error |-> e] :
        i \in bindings(SelectSeq(k.args, LAMBDA a : a.direction \in {"in", "inout"})),
        o \in bindings(SelectSeq(k.args, LAMBDA a : a.direction \in {"out", "inout"})),
        e \in BOOLEAN}

\* unittestmap, lines 278-286: the entry of a kernel, or none (known = FALSE).
UnitFixtures(k) ==
    {[known |-> TRUE, status |-> st, tests |-> t] :
        st \in BOOLEAN, t \in UNION {[1..n -> UnitRecords(k)] : n \in 0..MaxRecords}}
    \cup {[known |-> FALSE, status |-> TRUE, tests |-> <<>>]}

InitUnit ==
    /\ spec \in UnitKernels
    /\ fixture \in UnitFixtures(spec)
    /\ pc = "unit"
    /\ exc = ""
    /\ cpuunit = nofile
    /\ cudaunit = nofile
    /\ testdata = <<>>
    /\ NoTests
    /\ NoMain
    /\ NoRDF

\* gencpuunittests for one kernel of specdict_unit (lines 575-697): a kernel
\* of unit_test_map gets a file.
gencpuunittests ==
    /\ pc = "unit"
    /\ IF ~fixture.known
       THEN /\ pc' = "cpuunit"
            /\ UNCHANGED <<cpuunit, exc>>
       ELSE \E r \in {unitloop("test_unit_cpu", spec.name, spec.args, FALSE,
                               fixture.tests, 1, <<>>)} :
               /\ cpuunit' = [written |-> TRUE, funcs |-> r.funcs]
               /\ exc' = r.exc
               /\ pc' = IF r.exc = "" THEN "cpuunit" ELSE "raised"
    /\ UNCHANGED <<spec, fixture, cudaunit, gentestvars, mainvars, rdfvars>>

\* gencudaunittests for one kernel of specdict_unit (lines 954-1116): a
\* kernel of cuda_kernels_tests and of unit_test_map gets a file; a status
\* that is not true marks every function to be skipped.
gencudaunittests ==
    /\ pc = "cpuunit"
    /\ IF ~(spec.templ \in cuda_kernels_tests /\ fixture.known)
       THEN /\ pc' = "cudaunit"
            /\ UNCHANGED <<cudaunit, exc>>
       ELSE \E r \in {unitloop("test_unit_cuda", spec.name, spec.args, ~fixture.status,
                               fixture.tests, 1, <<>>)} :
               /\ cudaunit' = [written |-> TRUE, funcs |-> r.funcs]
               /\ exc' = r.exc
               /\ pc' = IF r.exc = "" THEN "cudaunit" ELSE "raised"
    /\ UNCHANGED <<spec, fixture, cpuunit, gentestvars, mainvars, rdfvars>>

NextUnit == gencpuunittests \/ gencudaunittests

SpecUnit == InitUnit /\ [][NextUnit]_vars

\* ------------------------------------------- main: the output directories

\* The six directories main writes into (lines 309, 345, 448-450, 555-557,
\* 805, 933-935).
Dirs ==
    {"tests-spec", "tests-spec-explicit", "tests-cpu-kernels", "tests-cpu-kernels-explicit",
     "tests-cuda-kernels", "tests-cuda-kernels-explicit"}

\* The specializations of kernel-specification.yml in the run: hasdef says
\* whether the definition holds "def " (readspec, lines 209-211).
MainKernels ==
    { [name |-> "awkward_NumpyArray_fill_toint8", templ |-> "awkward_NumpyArray_fill",
       hasdef |-> TRUE],
      [name |-> "awkward_sort_int64", templ |-> "awkward_sort", hasdef |-> TRUE],
      [name |-> "awkward_ListArray_fill_64", templ |-> "awkward_ListArray_fill",
       hasdef |-> FALSE] }

\* The names of the entries of "unit-tests" in kernel-test-data.json.
unit_test_names == {"awkward_NumpyArray_fill", "awkward_ListArray_fill"}

\* readspec, lines 205-219.
specdict == {k \in MainKernels : k.hasdef}
specdict_unit == MainKernels

\* What an earlier run may have left in a directory.
StaleFiles ==
    {[name |-> "kernels.py", content |-> "stale"], [name |-> "test_removed.py", content |-> "stale"]}

\* A directory as the run can find it: absent, or there with stale files.
DirStates ==
    {[exists |-> FALSE, files |-> {}]} \cup {[exists |-> TRUE, files |-> fs] : fs \in SUBSET StaleFiles}

\* shutil.rmtree(d) and os.mkdir(d).
rmtree(ds, d) == [ds EXCEPT ![d] = [exists |-> FALSE, files |-> {}]]
mkdir(ds, d) == [ds EXCEPT ![d].exists = TRUE]

\* if os.path.exists(d): shutil.rmtree(d); os.mkdir(d)
recreate(ds, d) == mkdir(IF ds[d].exists THEN rmtree(ds, d) ELSE ds, d)

\* open(os.path.join(d, name), "w") and the writes, for every name of names:
\* a file of that name is replaced.
writefiles(ds, d, names) ==
    [ds EXCEPT ![d].files = {f \in @ : f.name \notin names}
                               \cup {[name |-> n, content |-> "run"] : n \in names}]

\* shutil.copy(src/name, dst): the content is that of the source file.
copyfile(ds, src, name, dst) ==
    [ds EXCEPT ![dst].files =
        {f \in @ : f.name # name} \cup {g \in ds[src].files : g.name = name}]

\* The entries of the log of written files for the names written into d.
logged(d, names) == {[dir |-> d, name |-> n] : n \in names}

InitMain ==
    /\ dirs \in [Dirs -> DirStates]
    /\ before = dirs
    /\ written = {}
    /\ pc = "genpykernels"
    /\ exc = ""
    /\ spec = <<>>
    /\ testdata = <<>>
    /\ NoTests
    /\ NoUnit
    /\ NoRDF

\* genpykernels, lines 301-353.
genpykernels ==
    /\ pc = "genpykernels"
    /\ dirs' = copyfile(recreate(writefiles(recreate(dirs, "tests-spec"), "tests-spec",
                                            {"__init__.py", "kernels.py"}),
                                 "tests-spec-explicit"),
                        "tests-spec", "kernels.py", "tests-spec-explicit")
    /\ written' = written \cup logged("tests-spec", {"__init__.py", "kernels.py"})
                          \cup logged("tests-spec-explicit", {"kernels.py"})
    /\ pc' = "evalkernels"
    /\ UNCHANGED <<spec, testdata, exc, gentestvars, unitvars, before, rdfvars>>

\* evalkernels, lines 1161-1165: reads tests-spec/kernels.py.
evalkernels ==
    /\ pc = "evalkernels"
    /\ pc' = "readspec"
    /\ UNCHANGED <<spec, exc, gentestvars, unitvars, mainvars, rdfvars>>

\* readspec, lines 195-221: constructs the Specifications; an exception of a
\* constructor ends the run.
readspec ==
    /\ pc = "readspec"
    /\ \E raised \in BOOLEAN :
          /\ pc' = IF raised THEN "raised" ELSE "genspectests"
          /\ exc' = IF raised THEN "Exception" ELSE exc
    /\ UNCHANGED <<spec, gentestvars, unitvars, mainvars, rdfvars>>

\* genspectests, lines 369-378: one file per kernel of specdict, into
\* tests-spec.
genspectestsFiles ==
    /\ pc = "genspectests"
    /\ dirs' = writefiles(dirs, "tests-spec", {"test_py" \o k.name \o ".py" : k \in specdict})
    /\ written' = written
                  \cup logged("tests-spec", {"test_py" \o k.name \o ".py" : k \in specdict})
    /\ pc' = "gencpukerneltests"
    /\ UNCHANGED <<spec, exc, gentestvars, unitvars, before, rdfvars>>

\* gencpukerneltests, lines 448-473.
gencpukerneltestsFiles ==
    /\ pc = "gencpukerneltests"
    /\ dirs' = writefiles(recreate(dirs, "tests-cpu-kernels"), "tests-cpu-kernels",
                          {"__init__.py"} \cup {"test_cpu" \o k.name \o ".py" : k \in specdict})
    /\ written' = written
                  \cup logged("tests-cpu-kernels",
                              {"__init__.py"}
                                 \cup {"test_cpu" \o k.name \o ".py" : k \in specdict})
    /\ pc' = "gencpuunittests"
    /\ UNCHANGED <<spec, exc, gentestvars, unitvars, before, rdfvars>>

\* gencpuunittests, lines 555-580.
gencpuunittestsFiles ==
    /\ pc = "gencpuunittests"
    /\ dirs' = writefiles(recreate(dirs, "tests-cpu-kernels-explicit"),
                          "tests-cpu-kernels-explicit",
                          {"__init__.py"}
                             \cup {"test_unit_cpu" \o k.name \o ".py" :
                                      k \in {j \in specdict_unit : j.templ \in unit_test_names}})
    /\ written' = written
                  \cup logged("tests-cpu-kernels-explicit",
                              {"__init__.py"}
                                 \cup {"test_unit_cpu" \o k.name \o ".py" :
                                          k \in {j \in specdict_unit :
                                                    j.templ \in unit_test_names}})
    /\ pc' = "genunittests"
    /\ UNCHANGED <<spec, exc, gentestvars, unitvars, before, rdfvars>>

\* genunittests that makes its directory anew, as the other emitters do.
genunittestsFresh ==
    /\ pc = "genunittests"
    /\ dirs' = writefiles(recreate(dirs, "tests-spec-explicit"), "tests-spec-explicit",
                          {"test_" \o n \o ".py" : n \in unit_test_names})
    /\ written' = written
                  \cup logged("tests-spec-explicit",
                              {"test_" \o n \o ".py" : n \in unit_test_names})
    /\ pc' = "gencudakerneltests"
    /\ UNCHANGED <<spec, exc, gentestvars, unitvars, before, rdfvars>>

\* genunittests, lines 1119-1131: one file per entry of "unit-tests", into
\* tests-spec-explicit as genpykernels left it.
genunittests ==
    /\ pc = "genunittests"
    /\ dirs' = writefiles(dirs, "tests-spec-explicit",
                          {"test_" \o n \o ".py" : n \in unit_test_names})
    /\ written' = written
                  \cup logged("tests-spec-explicit",
                              {"test_" \o n \o ".py" : n \in unit_test_names})
    /\ pc' = "gencudakerneltests"
    /\ UNCHANGED <<spec, exc, gentestvars, unitvars, before, rdfvars>>

\* gencudakerneltests, lines 805-829.
gencudakerneltestsFiles ==
    /\ pc = "gencudakerneltests"
    /\ dirs' = writefiles(recreate(dirs, "tests-cuda-kernels"), "tests-cuda-kernels",
                          {"__init__.py"}
                             \cup {"test_cuda" \o k.name \o ".py" :
                                      k \in {j \in specdict : j.templ \in cuda_kernels_tests}})
    /\ written' = written
                  \cup logged("tests-cuda-kernels",
                              {"__init__.py"}
                                 \cup {"test_cuda" \o k.name \o ".py" :
                                          k \in {j \in specdict :
                                                    j.templ \in cuda_kernels_tests}})
    /\ pc' = "gencudaunittests"
    /\ UNCHANGED <<spec, exc, gentestvars, unitvars, before, rdfvars>>

\* gencudaunittests, lines 932-965.
gencudaunittestsFiles ==
    /\ pc = "gencudaunittests"
    /\ dirs' = writefiles(recreate(dirs, "tests-cuda-kernels-explicit"),
                          "tests-cuda-kernels-explicit",
                          {"__init__.py"}
                             \cup {"test_unit_cuda" \o k.name \o ".py" :
                                      k \in {j \in specdict_unit :
                                                /\ j.templ \in cuda_kernels_tests
                                                /\ j.templ \in unit_test_names}})
    /\ written' = written
                  \cup logged("tests-cuda-kernels-explicit",
                              {"__init__.py"}
                                 \cup {"test_unit_cuda" \o k.name \o ".py" :
                                          k \in {j \in specdict_unit :
                                                    /\ j.templ \in cuda_kernels_tests
                                                    /\ j.templ \in unit_test_names}})
    /\ pc' = "finished"
    /\ UNCHANGED <<spec, exc, gentestvars, unitvars, before, rdfvars>>

\* __main__, lines 1168-1177.
NextMain ==
    \/ genpykernels \/ evalkernels \/ readspec \/ genspectestsFiles
    \/ gencpukerneltestsFiles \/ gencpuunittestsFiles \/ genunittests
    \/ gencudakerneltestsFiles \/ gencudaunittestsFiles

SpecMain == InitMain /\ [][NextMain]_vars

\* ------------------------------------ AwkwardArrayDSGenerator.generate

\* Largest number of calls of generate in a run.
MaxCalls == 3

\* The entry types (generator.entry_type()) of the arrays passed in.
Labels == {"awkward::NumpyArray_a", "awkward::ListArray_b"}

\* The text of lines 55-245, which holds key in GetLabel (line 235).
source(key) == "class RAwkwardArrayDS { std::string GetLabel() { return '" \o key \o "'; } };"

\* cache.get(k): the entry, or None.
cacheget(k) == IF k \in DOMAIN cache THEN [none |-> FALSE, out |-> cache[k]]
               ELSE [none |-> TRUE, out |-> ""]

\* generate with the cache read under the entry type of the array.
generatePerLabel ==
    /\ pc = "rdf"
    /\ Len(calls) < MaxCalls
    /\ \E key \in Labels, use_cached \in BOOLEAN, raised \in BOOLEAN :
          /\ calls' = Append(calls, [key |-> key, use_cached |-> use_cached, raised |-> raised])
          /\ IF raised \/ (use_cached /\ ~cacheget(key).none)
             THEN UNCHANGED <<cache, submitted>>
             ELSE /\ cache' = [k \in DOMAIN cache \cup {key} |->
                                  IF k = key THEN source(key) ELSE cache[k]]
                  /\ submitted' = Append(submitted, source(key))
    /\ UNCHANGED <<spec, testdata, pc, exc, gentestvars, unitvars, mainvars>>

\* AwkwardArrayDSGenerator.generate, lines 36-248; raised says that
\* generator.generate(compiler) (line 41) left the call with an exception,
\* before the cache is read.
generate ==
    /\ pc = "rdf"
    /\ Len(calls) < MaxCalls
    /\ \E key \in Labels, use_cached \in BOOLEAN, raised \in BOOLEAN :
          /\ calls' = Append(calls, [key |-> key, use_cached |-> use_cached, raised |-> raised])
          /\ IF raised \/ (use_cached /\ ~cacheget("RAwkwardArrayDS").none)
             THEN UNCHANGED <<cache, submitted>>
             ELSE /\ cache' = [k \in DOMAIN cache \cup {"RAwkwardArrayDS"} |->
                                  IF k = "RAwkwardArrayDS" THEN source(key) ELSE cache[k]]
                  /\ submitted' = Append(submitted, source(key))
    /\ UNCHANGED <<spec, testdata, pc, exc, gentestvars, unitvars, mainvars>>

InitRDF ==
    /\ cache = <<>>
    /\ submitted = <<>>
    /\ calls = <<>>
    /\ pc = "rdf"
    /\ exc = ""
    /\ spec = <<>>
    /\ testdata = <<>>
    /\ NoTests
    /\ NoUnit
    /\ NoMain

NextRDF == generate

SpecRDF == InitRDF /\ [][NextRDF]_vars

\* ------------------------------------------------------------ properties

\* The argument of the kernel named name.
ArgNamed(name) == CHOOSE a \in {spec.args[i] : i \in 1..Len(spec.args)} : a.name = name

ArgSet == {spec.args[i] : i \in 1..Len(spec.args)}

\* The TestCase of the combination processed last, when it was retained.
Processed == idx >= 1 /\ Len(log) = idx
Retained == Processed /\ log[idx].kept
LastCase == allvals[Len(allvals)]

\* The role group of a role, and the suffix looked up in a fixture instance.
GroupOf(role) == SliceTo(role, Find(role, "-"))
SuffixOf(role) == SliceFrom(role, Find(role, "-"))
RoleGroups == {GroupOf(a.role) : a \in {b \in ArgSet : b.role # "default"}}

\* The fixture key of a role group: the exact key, else the key without its
\* last character.
Resolves(g) == g \in DOMAIN testdata \/ SliceTo(g, 0 - 1) \in DOMAIN testdata
FixtureKey(g) == IF g \in DOMAIN testdata THEN g ELSE SliceTo(g, 0 - 1)
NumInstances(g) == Len(testdata[FixtureKey(g)])

RECURSIVE InstanceProduct(_)
InstanceProduct(G) ==
    IF G = {} THEN 1
    ELSE LET g == CHOOSE h \in G : TRUE
         IN NumInstances(g) * InstanceProduct(G \ {g})

SetMax(S) == CHOOSE x \in S : \A y \in S : y <= x

\* C1: for a sparse write map m with non-negative keys, dicttolist returns a
\* sequence of length (largest key + 1), empty for an empty m, that holds m[k]
\* at every key k and the type's placeholder everywhere else; this is the
\* sequence recorded in outargs of a retained successful TestCase.
C1_Dense(m, typename, d) ==
    /\ d.kind = "ok"
    /\ Len(d.val.items) = IF Keys(m) = {} THEN 0 ELSE SetMax(Keys(m)) + 1
    /\ \A k \in 0..(Len(d.val.items) - 1) :
          IF k \in Keys(m)
          THEN \E j \in 1..Len(m.items) :
                  m.items[j].n = k /\ m.items[j].items[1] = d.val.items[k + 1]
          ELSE d.val.items[k + 1] = gettypeval(typename).val

C1_DictToList ==
    \A i \in 1..Len(temp) :
        (/\ temp[i].val.tag = "dict"
         /\ \A k \in Keys(temp[i].val) : k >= 0
         /\ gettypeval(ArgNamed(temp[i].name).typename).ok)
        => /\ C1_Dense(temp[i].val, ArgNamed(temp[i].name).typename,
                       dicttolist(temp[i].val, ArgNamed(temp[i].name).typename))
           /\ (Retained /\ outcome = "ok" /\ ArgNamed(temp[i].name).direction = "out")
              => Get(LastCase.outargs, temp[i].name)
                    = dicttolist(temp[i].val, ArgNamed(temp[i].name).typename).val

\* C1 witness: a retained successful TestCase whose accumulator was written
\* only at index 2, so that positions 0 and 1 are placeholders.
C1_Witness ==
    /\ Retained /\ outcome = "ok"
    /\ \E i \in 1..Len(temp) :
          /\ temp[i].val.tag = "dict"
          /\ Keys(temp[i].val) = {2}
          /\ Len(Get(LastCase.outargs, temp[i].name).items) = 3

\* C2: the number of combinations gettests enumerates is the product, over
\* the distinct non-default role groups, of the number of fixture instances of
\* the group (every role group having a fixture entry); default-role arguments
\* contribute a factor of 1.
C2_CombinationCount ==
    (pc = "loop" /\ \A g \in RoleGroups : Resolves(g))
    => Len(combos) = InstanceProduct(RoleGroups)

\* C2 witness: two role groups of two instances each and a default-role
\* argument: four combinations.
C2_Witness ==
    /\ pc = "loop"
    /\ Cardinality(RoleGroups) = 2
    /\ \A g \in RoleGroups : Resolves(g) /\ NumInstances(g) = 2
    /\ \E a \in ArgSet : a.role = "default"
    /\ Len(combos) = 4

\* C3: in every combination, the arguments of one role group are bound to
\* the values of one and the same instance of the group's fixture sequence.
C3_SameInstance ==
    pc = "loop" =>
        \A c \in 1..Len(combos) : \A g \in RoleGroups :
            Resolves(g) =>
                \E i \in 1..NumInstances(g) :
                    \A a \in {b \in ArgSet : b.role # "default" /\ GroupOf(b.role) = g} :
                        Get(combos[c], a.name)
                            = testdata[FixtureKey(g)][i][FixtureKey(g) \o SuffixOf(a.role)]

\* C3 witness: a group of two arguments with two instances that differ; the
\* second combination binds both arguments from the second instance.
C3_Witness ==
    /\ pc = "loop"
    /\ Len(combos) = 2
    /\ \E g \in RoleGroups :
          /\ Cardinality({b \in ArgSet : b.role # "default" /\ GroupOf(b.role) = g}) = 2
          /\ Resolves(g) /\ NumInstances(g) = 2
          /\ \A a \in {b \in ArgSet : b.role # "default" /\ GroupOf(b.role) = g} :
                /\ Get(combos[2], a.name) # Get(combos[1], a.name)
                /\ Get(combos[2], a.name)
                      = testdata[FixtureKey(g)][2][FixtureKey(g) \o SuffixOf(a.role)]

AllDefault == \A a \in ArgSet : a.role = "default"

\* C4 as claimed: a kernel with only default-role arguments has as many raw
\* combinations as the generic fixture "num" has elements.
C4_Original ==
    (pc = "loop" /\ AllDefault /\ testdata["num"].tag = "list")
    => Len(combos) = Len(testdata["num"].items)

\* C4 as amended: a kernel with only default-role arguments has exactly one
\* raw combination, whatever the length of "num": every input argument is
\* bound to the whole value of "num", every output argument to an empty
\* accumulator.
C4_SingleCombination ==
    (pc = "loop" /\ AllDefault)
    => /\ Len(combos) = 1
       /\ \A a \in ArgSet :
             Get(combos[1], a.name)
                = IF a.direction = "out" THEN DictV(<<>>) ELSE testdata["num"]

\* C4 witness: the one combination of such a kernel has been processed with a
\* "num" of several elements.
C4_Witness ==
    /\ pc = "loop" /\ AllDefault /\ idx = 1
    /\ testdata["num"].tag = "list"
    /\ Len(testdata["num"].items) > 1

Terminated == pc \in {"done", "raised", "hang"}

\* C5 as claimed: add_one (x a default-role int64 input, y a default-role
\* output, the callable y[0] = x + 1) with "num" a sequence of n values ends
\* with n TestCases, one per value x of "num", each successful with
\* outargs.y = [x + 1].
C5_Original ==
    (spec.func = "add_one" /\ testdata["num"].tag = "list" /\ Terminated)
    => /\ pc = "done"
       /\ Len(tests) = Len(testdata["num"].items)
       /\ \A i \in 1..Len(tests) :
             /\ tests[i].success
             /\ Get(tests[i].inargs, "x") = testdata["num"].items[i]
             /\ Get(tests[i].outargs, "y")
                   = ListV(<<IntV(testdata["num"].items[i].n + 1)>>)

\* C5 as amended: x is bound to the whole value of "num".  With "num" a
\* single integer v there is exactly one TestCase: successful, inargs.x = v,
\* inargs.y = [123], outargs.y = [v + 1].  With "num" a sequence, x + 1 raises
\* a TypeError, which leaves the constructor: no TestCase list.
C5_AddOne ==
    (spec.func = "add_one" /\ Terminated)
    => IF testdata["num"].tag = "int"
       THEN /\ pc = "done"
            /\ tests = << [success |-> TRUE,
                           inargs |-> << [name |-> "x", val |-> testdata["num"]],
                                         [name |-> "y", val |-> ListV(<<IntV(123)>>)] >>,
                           outargs |-> << [name |-> "y",
                                           val |-> ListV(<<IntV(testdata["num"].n + 1)>>)] >>] >>
       ELSE pc = "raised" /\ exc = "other" /\ tests = <<>>

\* C5 witness: add_one constructed with "num" a single integer, one TestCase.
C5_Witness ==
    /\ spec.func = "add_one" /\ pc = "done"
    /\ testdata["num"].tag = "int"
    /\ Len(tests) = 1 /\ tests[1].success

\* A kernel with signed integer scalar inputs and one output, every input
\* bound to an integer in every combination.
IsOut(a) == a.direction = "out"
IsIn(a) == a.direction # "out"
OutArgs == {a \in ArgSet : IsOut(a)}
InArgs == {a \in ArgSet : IsIn(a)}
ScalarIntKernel ==
    /\ Cardinality(OutArgs) = 1
    /\ \A a \in ArgSet : Contains(a.typename, "int") /\ ~Contains(a.typename, "uint")
    /\ \A a \in InArgs : ~Contains(a.typename, "List")
    /\ \A c \in 1..Len(combos) : \A a \in InArgs : Get(combos[c], a.name).tag = "int"
TheOutArg == CHOOSE a \in ArgSet : IsOut(a)
NumRaised == Cardinality({i \in 1..Len(log) : log[i].outcome = "ValueError"})
Placeholders(typename, n) == ListV([j \in 1..n |-> gettypeval(typename).val])

\* C6 as claimed: when the callable of such a kernel raises ValueError for
\* exactly one combination, the TestCase list has exactly one TestCase with
\* success = false, and it records a one-element placeholder for the output.
C6_Original ==
    (ScalarIntKernel /\ pc = "done" /\ NumRaised = 1)
    => /\ Cardinality({i \in 1..Len(tests) : ~tests[i].success}) = 1
       /\ \A i \in 1..Len(tests) :
             ~tests[i].success
             => Get(tests[i].inargs, TheOutArg.name) = Placeholders(TheOutArg.typename, 1)

\* C6 as amended: a combination on which the callable raises ValueError never
\* ends construction; it is retained, as a TestCase with success = false,
\* exactly when the callable had written at least one index of the output
\* before raising, and the output is then recorded as one placeholder per
\* index written; the other combinations are all executed and recorded.
C6_DomainError ==
    /\ (ScalarIntKernel /\ idx >= 1 /\ outcome = "ValueError")
       => /\ pc \in {"loop", "done", "emitted", "cpu", "cuda"}
          /\ Processed
          /\ log[idx].kept = (PyLen(Get(temp, TheOutArg.name)) >= 1)
          /\ log[idx].kept
             => /\ ~LastCase.success
                /\ Get(LastCase.inargs, TheOutArg.name)
                      = Placeholders(TheOutArg.typename, PyLen(Get(temp, TheOutArg.name)))
    /\ (ScalarIntKernel /\ pc = "done") => Len(log) = Len(combos)

\* C6 witness: checked_div raised for exactly one of two combinations, before
\* it wrote z: that combination was dropped, the other one is recorded.
C6_Witness ==
    /\ spec.func = "checked_div" /\ ScalarIntKernel /\ pc = "done"
    /\ NumRaised = 1 /\ Len(log) = 2
    /\ Len(tests) = 1 /\ tests[1].success

\* C7 as claimed: in a TestCase with success = false every output is recorded
\* as placeholders, as many as the accumulator held when it was passed in.
C7_Original ==
    (Retained /\ outcome = "ValueError")
    => \A a \in OutArgs :
          Get(LastCase.inargs, a.name)
             = Placeholders(a.typename, PyLen(Get(origtemp, a.name)))

\* C7 as amended: in a TestCase with success = false every output is recorded
\* as placeholders, as many as the accumulator holds distinct indices after
\* the call, that is one per index written before the error.
C7_DummyLength ==
    /\ \A i \in 1..Len(allvals) :
          ~allvals[i].success
          => \A a \in OutArgs :
                /\ Get(allvals[i].inargs, a.name).tag = "list"
                /\ \A j \in 1..Len(Get(allvals[i].inargs, a.name).items) :
                      Get(allvals[i].inargs, a.name).items[j] = gettypeval(a.typename).val
    /\ (Retained /\ outcome = "ValueError")
       => \A a \in OutArgs :
             Len(Get(LastCase.inargs, a.name).items) = Cardinality(Keys(Get(temp, a.name)))

\* C7 witness: the callable wrote indices 0 and 2 and raised; the retained
\* TestCase records two placeholders.
C7_Witness ==
    /\ Retained /\ outcome = "ValueError"
    /\ \E a \in OutArgs :
          /\ Keys(Get(temp, a.name)) = {0, 2}
          /\ Len(Get(LastCase.inargs, a.name).items) = 2

\* C8: in a TestCase with success = false, inargs records for every input
\* argument the value bound to it for the combination.
C8_Original ==
    (Retained /\ outcome = "ValueError")
    => \A a \in InArgs : Get(LastCase.inargs, a.name) = Get(origtemp, a.name)

RECURSIVE Negative(_)
Negative(v) ==
    IF IsScalar(v) THEN v.n < 0
    ELSE \E j \in 1..Len(v.items) : Negative(v.items[j])

HasUnsigned == \E a \in ArgSet : Contains(a.typename, "uint")

\* C10: no retained TestCase of a kernel with an unsigned argument holds a
\* negative number in an input or output value, and the overflow validator
\* never ends construction with an exception.
C10_Original ==
    HasUnsigned
    => /\ \A i \in 1..Len(allvals) :
             /\ \A j \in 1..Len(allvals[i].inargs) : ~Negative(allvals[i].inargs[j].val)
             /\ allvals[i].success
                => \A j \in 1..Len(allvals[i].outargs) :
                      ~Negative(allvals[i].outargs[j].val)
       /\ ~(pc = "raised" /\ exc = "TypeError: validateoverflow")

\* A value has the runtime type of the placeholder typeval: the value itself,
\* or every element of it when it is a sequence.
Conforms(v, typeval) ==
    IF v.tag = "list"
    THEN \A j \in 1..Len(v.items) : IsInstance(v.items[j], typeval)
    ELSE IsInstance(v, typeval)

\* C11: in every retained TestCase every value of inargs and of outargs has
\* the runtime type of the placeholder of its argument's declared type, every
\* element of a sequence included.
C11_Original ==
    \A i \in 1..Len(allvals) : \A a \in ArgSet :
        gettypeval(a.typename).ok
        => /\ Conforms(Get(allvals[i].inargs, a.name), gettypeval(a.typename).val)
           /\ (allvals[i].success /\ Has(allvals[i].outargs, a.name))
              => Conforms(Get(allvals[i].outargs, a.name), gettypeval(a.typename).val)

\* C12: no retained TestCase holds an empty sequence as the value of an
\* argument, in inargs or in outargs; a combination whose call left an output
\* accumulator empty is dropped.
C12_NoEmptySequence ==
    /\ \A i \in 1..Len(allvals) :
          /\ \A j \in 1..Len(allvals[i].inargs) :
                allvals[i].inargs[j].val # ListV(<<>>)
          /\ allvals[i].success
             => \A j \in 1..Len(allvals[i].outargs) :
                   allvals[i].outargs[j].val # ListV(<<>>)
    /\ (Processed /\ \E a \in OutArgs : Get(temp, a.name) = DictV(<<>>))
       => ~log[idx].kept

\* C12 witness: a call that returned without writing into its output
\* accumulator; the combination was dropped.
C12_Witness ==
    /\ Processed /\ outcome = "ok"
    /\ \E a \in OutArgs : Get(temp, a.name) = DictV(<<>>)
    /\ \A a \in ArgSet : gettypeval(a.typename).ok
    /\ ~log[idx].kept

Skipped == spec.blacklisted \/ spec.templ \in no_role_kernels

\* C13: a Specification constructed as blacklisted, or whose templatized name
\* is in no_role_kernels, ends with an empty TestCase list whatever the
\* fixture corpus holds, without an exception, and no combination is ever
\* formed or passed to its reference callable.
C13_Skipped ==
    Skipped
    => /\ pc \in {"init", "done", "emitted", "cpu", "cuda"}
       /\ exc = "" /\ combos = <<>> /\ idx = 0 /\ log = <<>> /\ outcome = ""
       /\ tests = <<>>

\* C13 witness: such a kernel has roles whose fixture group is missing, and
\* construction is over.
C13_Witness ==
    /\ Skipped /\ pc = "done"
    /\ \E g \in RoleGroups : ~Resolves(g)

\* C17: when a kernel with tests enabled has a role whose group key, also
\* without its last character, is missing from the fixture corpus,
\* construction ends with an exception and without a TestCase list.
C17_Original ==
    (~Skipped /\ pc # "init" /\ \E g \in RoleGroups : ~Resolves(g))
    => pc = "raised" /\ tests = <<>>

\* C18: the values of an argument with a role come from the fixture entry
\* under the exact group key when the corpus has it, whether or not it also
\* has the key without its last character, and from the latter only when the
\* exact key is missing; the role looked up in an instance is (the key
\* used + the role's suffix), and the argument is grouped under the group
\* name as the role spells it.
C18_Lookup ==
    pc = "loop"
    => \A a \in {b \in ArgSet : b.role # "default"} :
          /\ GroupOf(a.role) \in DOMAIN testdata
             => \A c \in 1..Len(combos) :
                   \E i \in 1..Len(testdata[GroupOf(a.role)]) :
                      Get(combos[c], a.name)
                         = testdata[GroupOf(a.role)][i][a.role]
          /\ (/\ GroupOf(a.role) \notin DOMAIN testdata
              /\ SliceTo(GroupOf(a.role), 0 - 1) \in DOMAIN testdata)
             => \A c \in 1..Len(combos) :
                   \E i \in 1..Len(testdata[SliceTo(GroupOf(a.role), 0 - 1)]) :
                      Get(combos[c], a.name)
                         = testdata[SliceTo(GroupOf(a.role), 0 - 1)][i]
                                   [SliceTo(GroupOf(a.role), 0 - 1) \o SuffixOf(a.role)]
          /\ \E g \in 1..Len(grouping(spec.args, testdata).instancedict) :
                /\ grouping(spec.args, testdata).instancedict[g].group = GroupOf(a.role)
                /\ \E k \in 1..Len(grouping(spec.args, testdata).instancedict[g].names) :
                      grouping(spec.args, testdata).instancedict[g].names[k] = a.name

\* C18 witness: the corpus has "H" and not "Hs"; the argument of role Hs-n is
\* bound to the value stored as H-n in the first instance of "H".
C18_Witness ==
    /\ pc = "loop" /\ Len(combos) >= 1
    /\ "Hs" \notin DOMAIN testdata /\ "H" \in DOMAIN testdata
    /\ \E a \in ArgSet :
          /\ a.role = "Hs-n"
          /\ Get(combos[1], a.name) = testdata["H"][1]["H-n"]

RECURSIVE NumKept(_)
NumKept(l) == IF l = <<>> THEN 0 ELSE (IF Head(l).kept THEN 1 ELSE 0) + NumKept(Tail(l))

\* C19: when the reference callable raises an exception that is not a
\* ValueError, construction ends with that exception: the combination is not
\* recorded, no TestCase list is assigned, and nothing is executed afterwards.
C19_Propagates ==
    /\ [](outcome = "other"
          => /\ pc = "raised" /\ exc = "other"
             /\ Len(log) = idx - 1
             /\ Len(allvals) = NumKept(log)
             /\ tests = <<>>)
    /\ [][pc # "raised"]_vars

\* C19 witness: the callable raised such an exception on the first of two
\* combinations.
C19_Witness ==
    /\ outcome = "other" /\ pc = "raised"
    /\ idx = 1 /\ Len(combos) = 2

HasUnknownType == \E a \in ArgSet : ~gettypeval(a.typename).ok

\* C20: construction of a kernel with tests enabled that has an argument of
\* an unrecognized type never completes with a TestCase list.
C20_Original ==
    (~Skipped /\ HasUnknownType) => pc # "done"

\* C14: no step of gettests changes the fixture corpus; whatever the
\* reference callable did to its arguments in the combinations processed so
\* far, every combination, processed or still to come, binds the values the
\* fixture corpus gives, and an empty accumulator to every default-role out
\* argument.
C14_Frame ==
    /\ [][testdata' = testdata]_vars
    /\ [](pc = "loop"
          => /\ combos = allorigtemps(grouping(spec.args, testdata))
             /\ \A c \in 1..Len(combos) :
                   \A a \in {b \in OutArgs : b.role = "default"} :
                      Get(combos[c], a.name) = DictV(<<>>))
    /\ [](idx >= 1 => origtemp = allorigtemps(grouping(spec.args, testdata))[idx])

\* C14 witness: the callable changed a list it was passed and wrote into its
\* accumulator on the first of two combinations.
C14_Witness ==
    /\ pc = "loop" /\ idx = 1 /\ Len(combos) = 2
    /\ \E a \in InArgs : Get(temp, a.name) # Get(origtemp, a.name)
    /\ \E a \in OutArgs : Get(temp, a.name) # DictV(<<>>)
    /\ \A a \in OutArgs : Get(combos[2], a.name) = DictV(<<>>)

\* The role groups of the kernel in the order of their first declaration.
RECURSIVE firstdeclared(_, _)
firstdeclared(arglist, seen) ==
    IF arglist = <<>> THEN <<>>
    ELSE IF Head(arglist).role = "default" \/ GroupOf(Head(arglist).role) \in seen
    THEN firstdeclared(Tail(arglist), seen)
    ELSE <<GroupOf(Head(arglist).role)>>
         \o firstdeclared(Tail(arglist), seen \cup {GroupOf(Head(arglist).role)})

\* The fixture instance that combination c binds the role group g from.
InstanceOf(c, g) ==
    Get(refs[c], (CHOOSE a \in ArgSet : a.role # "default" /\ GroupOf(a.role) = g).name).x

\* The place of combination c when the groups gs are iterated with the last
\* one varying fastest, counted from 0.
RECURSIVE Rank(_, _)
Rank(c, gs) ==
    IF gs = <<>> THEN 0
    ELSE (InstanceOf(c, Head(gs)) - 1)
            * InstanceProduct({Tail(gs)[j] : j \in 1..Len(Tail(gs))})
         + Rank(c, Tail(gs))

\* The indices of the combinations that were retained, in order.
RECURSIVE KeptIndices(_, _)
KeptIndices(l, k) ==
    IF l = <<>> THEN <<>>
    ELSE (IF Head(l).kept THEN <<k>> ELSE <<>>) \o KeptIndices(Tail(l), k + 1)

\* C15: the combinations are enumerated with the role groups in the order of
\* their first declaration and the last group varying fastest; allvals only
\* ever grows at its end, and its i-th TestCase is that of the i-th retained
\* combination; genspectests writes one test function per TestCase, in list
\* order, the i-th being numbered i.
C15_Order ==
    /\ []((pc = "loop" /\ \A g \in RoleGroups : Resolves(g))
          => \A c \in 1..Len(combos) : c = 1 + Rank(c, firstdeclared(spec.args, {})))
    /\ [](/\ Len(allvals) = NumKept(log)
          /\ \A i \in 1..Len(allvals) : \A a \in InArgs :
                IsScalar(Get(combos[KeptIndices(log, 1)[i]], a.name))
                => Get(allvals[i].inargs, a.name)
                      = Get(combos[KeptIndices(log, 1)[i]], a.name))
    /\ [][\/ allvals' = allvals
          \/ /\ Len(allvals') = Len(allvals) + 1
             /\ SubSeq(allvals', 1, Len(allvals)) = allvals]_vars
    /\ []((pc = "emitted" /\ tests # <<>>)
          => /\ tests = allvals
             /\ Len(testfile) = Len(tests)
             /\ \A i \in 1..Len(tests) :
                   /\ testfile[i].funcname = "test_py" \o spec.name \o "_" \o ToString(i)
                   /\ ~testfile[i].skip
                   /\ testfile[i].test = tests[i])

\* C15 witness: two role groups of two instances each; the first and the
\* third combination were dropped, the second and the fourth are test
\* functions 1 and 2.
C15_Witness ==
    /\ pc = "emitted"
    /\ Len(firstdeclared(spec.args, {})) = 2
    /\ \A g \in RoleGroups : Resolves(g)
    /\ Len(combos) = 4 /\ KeptIndices(log, 1) = <<2, 4>>
    /\ Len(testfile) = 2
    /\ Get(testfile[2].test.inargs, "x") # Get(testfile[1].test.inargs, "x")

AsMap(d) == DictV([i \in 1..Len(d.items) |-> KV(i - 1, d.items[i])])

\* C24: for every accumulator m with non-negative keys that a callable left,
\* dicttolist applied to the dense result of dicttolist(m), read as a map,
\* returns that dense result.
C24_Idempotent ==
    \A i \in 1..Len(temp) :
        (/\ temp[i].val.tag = "dict"
         /\ \A k \in Keys(temp[i].val) : k >= 0
         /\ gettypeval(ArgNamed(temp[i].name).typename).ok)
        => dicttolist(AsMap(dicttolist(temp[i].val, ArgNamed(temp[i].name).typename).val),
                      ArgNamed(temp[i].name).typename)
              = dicttolist(temp[i].val, ArgNamed(temp[i].name).typename)

\* C24 witness: an accumulator written at indices 0 and 2; its dense result
\* has a placeholder at index 1.
C24_Witness ==
    \E i \in 1..Len(temp) :
        /\ temp[i].val.tag = "dict"
        /\ Keys(temp[i].val) = {0, 2}
        /\ gettypeval(ArgNamed(temp[i].name).typename).ok
        /\ Len(dicttolist(temp[i].val, ArgNamed(temp[i].name).typename).val.items) = 3

\* C26: in every retained TestCase with success = true, the inargs value of
\* each out argument is made of the type's placeholder only and is as long
\* as the outargs value, which is (largest index written + 1) long.
C26_PlaceholderLength ==
    /\ \A i \in 1..Len(allvals) :
          allvals[i].success
          => \A a \in OutArgs :
                Get(allvals[i].inargs, a.name)
                   = Placeholders(a.typename, Len(Get(allvals[i].outargs, a.name).items))
    /\ (Retained /\ outcome = "ok")
       => \A a \in OutArgs :
             Len(Get(LastCase.outargs, a.name).items) = SetMax(Keys(Get(temp, a.name))) + 1

\* C26 witness: a retained successful TestCase whose callable wrote indices
\* 0 and 2: three placeholders in inargs, three values in outargs.
C26_Witness ==
    /\ Retained /\ outcome = "ok"
    /\ \E a \in OutArgs :
          /\ Keys(Get(temp, a.name)) = {0, 2}
          /\ Len(Get(LastCase.inargs, a.name).items) = 3
          /\ Len(Get(LastCase.outargs, a.name).items) = 3

\* C27: construction never gets caught in a loop of its own: dicttolist
\* returns for every accumulator the callable leaves, one with a negative
\* index included.
C27_Original == pc # "hang"


\* The file f is one function, named prefix + kernel + "_1" and marked skipped.
OneSkipped(f, prefix) ==
    /\ Len(f) = 1
    /\ f[1].funcname = prefix \o spec.name \o "_1"
    /\ f[1].skip
    /\ f[1].body.expects = "NotImplementedError"

\* C22: for a kernel whose TestCase list is empty (blacklisted, a no-role
\* kernel, or every combination rejected) each emitter that writes a file for
\* it comes to its end without an error and writes exactly one test function,
\* numbered _1 and marked skipped.
C22_EmptyList ==
    /\ [](tests = <<>>
          => /\ pc \in {"emitted", "cpu", "cuda"} => OneSkipped(testfile, "test_py")
             /\ pc \in {"cpu", "cuda"} => OneSkipped(cpufile, "test_cpu")
             /\ (pc = "cuda" /\ spec.templ \in cuda_kernels_tests)
                => OneSkipped(cudafile, "test_cuda"))
    /\ [][(tests = <<>> /\ pc \in {"done", "emitted", "cpu"})
          => (pc' \in {"emitted", "cpu", "cuda"} /\ exc' = exc)]_vars

C22_Witness ==
    /\ pc = "cuda"
    /\ tests = <<>>
    /\ idx >= 1
    /\ spec.templ \in cuda_kernels_tests
    /\ Len(cudafile) = 1

\* The TestCases a file lists, in the order of its functions.
Listed(f) == [i \in 1..Len(SelectSeq(f, LAMBDA r : ~r.skip)) |->
                 SelectSeq(f, LAMBDA r : ~r.skip)[i].test]

\* C23: self.tests is assigned once, by the constructor; the emitters neither
\* call the reference callable again nor change the list, and the files of
\* the three emitters list the same TestCases in the same order.
C23_ComputedOnce ==
    /\ [][(pc \in {"done", "emitted", "cpu"})
          => (tests' = tests /\ idx' = idx /\ log' = log /\ allvals' = allvals)]_vars
    /\ [](pc \in {"emitted", "cpu", "cuda"} => Listed(testfile) = tests)
    /\ [](pc \in {"cpu", "cuda"} => Listed(cpufile) = tests)
    /\ []((pc = "cuda" /\ spec.templ \in cuda_kernels_tests) => Listed(cudafile) = tests)

C23_Witness ==
    /\ pc = "cuda"
    /\ Len(tests) = 2
    /\ Len(cudafile) = 2
    /\ Len(cpufile) = 2
    /\ tests[1] # tests[2]

\* C28: for every retained TestCase with success = false each emitter that
\* writes tests (spec, CPU, CUDA) writes a function that calls the kernel with
\* the recorded inputs and asserts that the call fails.
C28_Original ==
    \A f \in {testfile, cpufile, cudafile} :
       \A i \in 1..Len(f) :
          (~f[i].skip /\ ~f[i].test.success)
          => /\ f[i].body.inputs = f[i].test.inargs
             /\ f[i].body.call
             /\ f[i].body.expects = "fails"

\* What a type name of the unit-test kernels declares: whether it is an
\* integer type, its signedness and its width in bits.
Declared(typename) ==
    CASE typename \in {"int8_t", "List[int8_t]"} -> [integer |-> TRUE, signed |-> TRUE, bits |-> 8]
      [] typename \in {"uint8_t", "Const[List[uint8_t]]", "Const[List[List[uint8_t]]]"} ->
            [integer |-> TRUE, signed |-> FALSE, bits |-> 8]
      [] typename \in {"int16_t", "List[int16_t]", "List[List[int16_t]]"} ->
            [integer |-> TRUE, signed |-> TRUE, bits |-> 16]
      [] typename = "List[uint16_t]" -> [integer |-> TRUE, signed |-> FALSE, bits |-> 16]
      [] OTHER -> [integer |-> FALSE, signed |-> FALSE, bits |-> 0]

\* The scalars of a value: of a scalar, a list, or a list of lists.
Scalars(v) ==
    IF IsScalar(v) THEN {v.n}
    ELSE UNION {IF IsScalar(v.items[i]) THEN {v.items[i].n}
                ELSE {v.items[i].items[j].n : j \in 1..Len(v.items[i].items)} :
                   i \in 1..Len(v.items)}

Lowest(d) == IF d.signed THEN 0 - 2 ^ (d.bits - 1) ELSE 0
Highest(d) == IF d.signed THEN 2 ^ (d.bits - 1) - 1 ELSE 2 ^ d.bits - 1

\* Every scalar of every integer-typed argument of test_args is in the range
\* of the declared type.
AllInRange(test_args) ==
    \A i \in 1..Len(test_args) :
       Declared(argtype(spec.args, test_args[i].name)).integer
       => \A n \in Scalars(test_args[i].val) :
             /\ Lowest(Declared(argtype(spec.args, test_args[i].name))) <= n
             /\ n <= Highest(Declared(argtype(spec.args, test_args[i].name)))

\* The (arg, val) pairs the validators are given for a record.
Merged(t) == getunittests(t.inputs, t.outputs)

\* C21: for a record not marked as an error checkintrange returns true if
\* and only if every scalar in the value of every integer or unsigned typed
\* argument (a scalar, a list, a list of lists) lies within [min, max] of the
\* declared width and signedness; for a record marked as an error it returns
\* true whatever the values are.
C21_Range ==
    \A i \in 1..Len(fixture.tests) :
       checkintrange(Merged(fixture.tests[i]), fixture.tests[i].error, spec.args)
          = (fixture.tests[i].error \/ AllInRange(Merged(fixture.tests[i])))

\* C21 witness: gencpuunittests has run over a list of lists of int16_t; a
\* record with 32768 in an inner list is left out, the same values marked as
\* an error are written.
C21_Witness ==
    /\ pc = "cpuunit"
    /\ spec.name = "awkward_ListArray_fill_to16"
    /\ Len(fixture.tests) = 2
    /\ ~fixture.tests[1].error /\ fixture.tests[2].error
    /\ fixture.tests[1].outputs = fixture.tests[2].outputs
    /\ 32768 \in Scalars(fixture.tests[1].outputs[1].val)
    /\ ~checkintrange(Merged(fixture.tests[1]), FALSE, spec.args)
    /\ Len(cpuunit.funcs) = 1
    /\ cpuunit.funcs[1].test = fixture.tests[2]

\* Both validators accept the record.
Accepts(t) ==
    /\ checkuint(Merged(t), spec.args) = "true"
    /\ checkintrange(Merged(t), t.error, spec.args)

AcceptLog == [i \in 1..Len(fixture.tests) |-> [kept |-> Accepts(fixture.tests[i])]]

\* The file holds the accepted records, in fixture order, numbered from 1
\* without a gap.
Emitted(f, prefix) ==
    /\ Len(f.funcs) = NumKept(AcceptLog)
    /\ \A k \in 1..Len(f.funcs) :
          /\ f.funcs[k].test = fixture.tests[KeptIndices(AcceptLog, 1)[k]]
          /\ f.funcs[k].funcname = prefix \o spec.name \o "_" \o ToString(k)

RunFiles(d) == {f \in dirs[d].files : f.content = "run"}
LoggedNames(d) == {w.name : w \in {x \in written : x.dir = d}}

\* C29: in a run of main every output directory is deleted and made anew
\* before the first file of the run is written into it, and no file of the
\* run is deleted afterwards: at the end each directory holds exactly the
\* files written in the run, kernels.py in tests-spec and its copy in
\* tests-spec-explicit, next to the unit-test files, among them.
C29_Directories ==
    /\ [](\A d \in Dirs : RunFiles(d) # {} => dirs[d].files = RunFiles(d))
    /\ [][(\A w \in written : [name |-> w.name, content |-> "run"] \in dirs'[w.dir].files)]_vars
    /\ [](\A w \in written : [name |-> w.name, content |-> "run"] \in dirs[w.dir].files)
    /\ [](pc = "finished"
          => /\ \A d \in Dirs :
                   /\ dirs[d].exists
                   /\ dirs[d].files = RunFiles(d)
                   /\ {f.name : f \in dirs[d].files} = LoggedNames(d)
             /\ "kernels.py" \in LoggedNames("tests-spec")
             /\ {"kernels.py"} \cup {"test_" \o n \o ".py" : n \in unit_test_names}
                   = {f.name : f \in dirs["tests-spec-explicit"].files})

\* C29 witness: the run has come to its end; it found stale files in
\* tests-spec-explicit and tests-spec, and no tests-cpu-kernels.
C29_Witness ==
    /\ pc = "finished"
    /\ before["tests-spec-explicit"].files = StaleFiles
    /\ before["tests-spec"].files = StaleFiles
    /\ ~before["tests-cpu-kernels"].exists
    /\ Cardinality(dirs["tests-spec-explicit"].files) = 3

\* The call of generate that has just been made.
LastCall == calls[Len(calls)]

\* C30: with use_cached = true the text is built and handed to ProcessLine
\* only when the cache has no entry "RAwkwardArrayDS", hence at most once; a
\* later call keeps the text of the first call and hands nothing in, also
\* for another entry type.  With use_cached = false every call builds the
\* text, overwrites the entry and hands it in.
C30_Cache ==
    /\ [][(calls' # calls /\ ~LastCall'.raised)
          => IF LastCall'.use_cached /\ "RAwkwardArrayDS" \in DOMAIN cache
             THEN submitted' = submitted /\ cache' = cache
             ELSE /\ submitted' = Append(submitted, source(LastCall'.key))
                  /\ DOMAIN cache' = {"RAwkwardArrayDS"}
                  /\ cache'["RAwkwardArrayDS"] = source(LastCall'.key)]_vars
    /\ []((\A i \in 1..Len(calls) : calls[i].use_cached)
          => /\ Len(submitted) <= 1
             /\ \A i \in 1..Len(calls) :
                   (~calls[i].raised /\ \A j \in 1..(i - 1) : calls[j].raised)
                   => /\ submitted = <<source(calls[i].key)>>
                      /\ cache["RAwkwardArrayDS"] = source(calls[i].key))

\* C30 witness: a cached call, a cached call for another entry type, which
\* hands nothing in, and an uncached call, which hands its own text in.
C30_Witness ==
    /\ Len(calls) = 3
    /\ \A i \in 1..3 : ~calls[i].raised
    /\ calls[1].use_cached /\ calls[2].use_cached /\ ~calls[3].use_cached
    /\ calls[1].key # calls[2].key
    /\ calls[3].key = calls[2].key
    /\ submitted = <<source(calls[1].key), source(calls[2].key)>>
    /\ cache["RAwkwardArrayDS"] = source(calls[2].key)

====
